---- MODULE Spec2Model ----
(***************************************************************************)
(* A model of three MIR passes of librustc_mir/transform:                  *)
(*   - CopyPropagation (copy_prop.rs) over DefUseAnalysis (def_use.rs),    *)
(*   - RemoveDrops (remove_drops.rs) over PredecessorMap,                  *)
(*   - TmpForward (tmp_forward.rs).                                        *)
(* Every pass has its own specification; the variables are shared: `mir`   *)
(* is the body a pass rewrites in place, `input` the body it was handed.   *)
(***************************************************************************)
EXTENDS Integers, Sequences, FiniteSets, TLC

VARIABLES
    mir,               \* the function body the running pass mutates in place
    input,             \* the body handed to the first run of the pass
    first_output,      \* the body the first run returned (<<>> during the first run)
    run,               \* 1: first run of the pass, 2: the run on the first run's output
    pc,                \* position of the pass's control
    changed,           \* the local `changed` of the pass's outer loop
    def_use_analysis,  \* CopyPropagation: DefUseAnalysis.info
    dest_local,        \* CopyPropagation: the index of the `for dest_local` loop
    performed,         \* CopyPropagation: the actions performed so far, in order
    scan_mir,          \* CopyPropagation: the body as the current scan of the locals found it
    predecessor_map,   \* RemoveDrops: the PredecessorMap of the current outer iteration
    cur_bb,            \* RemoveDrops: the index of the `for cur_bb` loop
    uses,              \* TmpForward: TempCollector.uses, then Promoter.uses
    dead,              \* TmpForward: Promoter.dead
    next_block,        \* TmpForward: the block Promoter::visit_mir comes to next
    call,              \* PredecessorMap: the last method called on the map, with its arguments
    mir_opt_level      \* tcx.sess.opts.debugging_opts.mir_opt_level

vars == <<mir, input, first_output, run, pc, changed,
          def_use_analysis, dest_local, performed, scan_mir, predecessor_map, cur_bb,
          uses, dead, next_block, call, mir_opt_level>>

\* The variables of the other passes, which a pass leaves alone.
cp_vars == <<def_use_analysis, dest_local, performed, scan_mir>>
rd_vars == <<predecessor_map, cur_bb>>
tf_vars == <<uses, dead, next_block>>
pm_vars == <<call>>

(***************************************************************************)
(* Sequence helpers.                                                       *)
(***************************************************************************)
RECURSIVE Flatten(_)
Flatten(ss) == IF ss = <<>> THEN <<>> ELSE Head(ss) \o Flatten(Tail(ss))

\* Vec::remove_item: removes the first element equal to x, if there is one.
RECURSIVE RemoveItem(_, _)
RemoveItem(v, x) ==
    IF v = <<>> THEN <<>>
    ELSE IF Head(v) = x THEN Tail(v)
    ELSE <<Head(v)>> \o RemoveItem(Tail(v), x)

Count(v, P(_)) == Len(SelectSeq(v, P))

(***************************************************************************)
(*                       PART I: CopyPropagation                           *)
(***************************************************************************)

\* Bounds of the bodies CopyPropagation is run on.
NumLocals == 4
MaxArgs == 1
NumStatements == 3
MaxConst == 2

Locals == 0 .. (NumLocals - 1)
Consts == 1 .. MaxConst

\* ---- the MIR the pass reads (rustc::mir) ----
Local(l) == [local |-> l, deref |-> FALSE]
Deref(l) == [local |-> l, deref |-> TRUE]
Copy(p) == [op |-> "Copy", place |-> p]
Move(p) == [op |-> "Move", place |-> p]
Constant(c) == [op |-> "Constant", const |-> c]
Use(o) == [rv |-> "Use", operand |-> o]
Ref(p) == [rv |-> "Ref", place |-> p]
Assign(p, r) == [kind |-> "Assign", place |-> p, rvalue |-> r]
StorageLive(l) == [kind |-> "StorageLive", local |-> l]
StorageDead(l) == [kind |-> "StorageDead", local |-> l]
Nop == [kind |-> "Nop"]
Return == [kind |-> "Return"]
\* `destination` is an Option: <<>> is None, << <<place, block>> >> is Some.
Call(f, as, d) == [kind |-> "Call", func |-> f, args |-> as, destination |-> d]
Location(b, i) == [block |-> b, statement_index |-> i]

\* Mir::local_kind: local 0 is the return slot, the next arg_count are arguments.
LocalKind(m, l) ==
    IF l = 0 THEN "ReturnPointer"
    ELSE IF l <= m.arg_count THEN "Arg"
    ELSE "Temp"

\* PlaceContext::is_mutating_use / is_nonmutating_use / is_drop / is_storage_marker / is_use
IsMutatingUse(ctx) == ctx \in {"Store", "Call", "Drop", "ProjectionMut"}
IsNonmutatingUse(ctx) == ctx \in {"Copy", "Move", "Borrow", "ProjectionNot"}
IsDrop(ctx) == ctx = "Drop"
IsStorageMarker(ctx) == ctx \in {"StorageLive", "StorageDead"}
IsUse(ctx) == IsMutatingUse(ctx) \/ IsNonmutatingUse(ctx)

\* super_place: the locals a visit of a place reaches, with their contexts.
PlaceOccs(p, ctx) ==
    IF p.deref
    THEN <<[local |-> p.local,
            context |-> IF IsMutatingUse(ctx) THEN "ProjectionMut" ELSE "ProjectionNot"]>>
    ELSE <<[local |-> p.local, context |-> ctx]>>

OperandOccs(o) == IF o.op = "Constant" THEN <<>> ELSE PlaceOccs(o.place, o.op)

RvalueOccs(r) ==
    IF r.rv = "Use" THEN OperandOccs(r.operand) ELSE PlaceOccs(r.place, "Borrow")

\* super_statement: the locals a visit of a statement reaches, in visit order.
StatementOccs(s) ==
    CASE s.kind = "Assign" -> PlaceOccs(s.place, "Store") \o RvalueOccs(s.rvalue)
      [] s.kind = "StorageLive" -> <<[local |-> s.local, context |-> "StorageLive"]>>
      [] s.kind = "StorageDead" -> <<[local |-> s.local, context |-> "StorageDead"]>>
      [] OTHER -> <<>>

\* super_terminator_kind: Return visits nothing; a Call visits its function,
\* its arguments and then its destination, in the context Call.
TerminatorOccs(t) ==
    IF t.kind = "Call"
    THEN OperandOccs(t.func)
         \o Flatten([k \in 1 .. Len(t.args) |-> OperandOccs(t.args[k])])
         \o (IF t.destination = <<>> THEN <<>> ELSE PlaceOccs(t.destination[1][1], "Call"))
    ELSE <<>>

NumBlocks(m) == Len(m.blocks)
BlockData(m, b) == m.blocks[b + 1]
IsTerminatorLoc(m, loc) ==
    loc.statement_index = Len(BlockData(m, loc.block).statements)
StatementAt(m, loc) == BlockData(m, loc.block).statements[loc.statement_index + 1]

\* What a visitor sees at a location: the statement there, or the terminator.
OccsAt(m, loc) ==
    IF IsTerminatorLoc(m, loc)
    THEN TerminatorOccs(BlockData(m, loc.block).terminator)
    ELSE StatementOccs(StatementAt(m, loc))

\* Every location of the body in visit_mir order.
AllLocations(m) ==
    Flatten([b \in 1 .. NumBlocks(m) |->
        [i \in 1 .. (Len(m.blocks[b].statements) + 1) |-> Location(b - 1, i - 1)]])


\* ---- def_use.rs ----

\* DefUseFinder::visit_local over visit_mir: every occurrence of `local`, as a Use.
UsesAt(m, loc, local) ==
    LET occs == SelectSeq(OccsAt(m, loc), LAMBDA o : o.local = local)
    IN  [j \in 1 .. Len(occs) |-> [context |-> occs[j].context, location |-> loc]]

\* DefUseAnalysis::new + analyze: info[local].defs_and_uses, rebuilt from the body.
Analyze(m) ==
    LET locs == AllLocations(m)
    IN  [l \in Locals |-> Flatten([k \in 1 .. Len(locs) |-> UsesAt(m, locs[k], l)])]

\* Info::def_count_not_including_drop / defs_not_including_drop / use_count
IsDefNotDrop(u) == IsMutatingUse(u.context) /\ ~IsDrop(u.context)
DefsNotIncludingDrop(info) == SelectSeq(info, IsDefNotDrop)
DefCountNotIncludingDrop(info) == Len(DefsNotIncludingDrop(info))
UseCount(info) == Count(info, LAMBDA u : IsNonmutatingUse(u.context))

\* The callback of replace_all_defs_and_uses_with applied by MutateUseVisitor::visit_place:
\* a place whose local is the query (bare, or the base of a projection) now names new_local.
MutatePlace(p, query, new_local) ==
    IF p.local = query THEN [p EXCEPT !.local = new_local] ELSE p

MutateOperand(o, query, new_local) ==
    IF o.op = "Constant" THEN o ELSE [o EXCEPT !.place = MutatePlace(@, query, new_local)]

MutateRvalue(r, query, new_local) ==
    IF r.rv = "Use"
    THEN [r EXCEPT !.operand = MutateOperand(@, query, new_local)]
    ELSE [r EXCEPT !.place = MutatePlace(@, query, new_local)]

\* MutateUseVisitor over one statement: storage markers are reached through
\* visit_local with `add` unset, so they are left as they are.
MutateStatement(s, query, new_local) ==
    IF s.kind = "Assign"
    THEN [s EXCEPT !.place = MutatePlace(@, query, new_local),
                   !.rvalue = MutateRvalue(@, query, new_local)]
    ELSE s

MutateTerminator(t, query, new_local) ==
    IF t.kind = "Call"
    THEN [t EXCEPT !.func = MutateOperand(@, query, new_local),
                   !.args = [k \in 1 .. Len(@) |-> MutateOperand(@[k], query, new_local)],
                   !.destination =
                       IF @ = <<>> THEN @
                       ELSE << <<MutatePlace(@[1][1], query, new_local), @[1][2]>> >>]
    ELSE t

\* callback2 of mutate_defs_and_uses for one visited place occurrence of the query:
\* the first super_place (add = Some(false)) removes the Use from info[query]; the
\* second one (add = Some(true)) reaches visit_local with the replaced local, which
\* passes the test `*local == self.query` only if the replacement is the query itself.
RECURSIVE UpdateInfo(_, _, _, _, _)
UpdateInfo(info, occs, loc, query, new_local) ==
    IF occs = <<>> THEN info
    ELSE LET o == Head(occs)
             u == [context |-> o.context, location |-> loc]
             removed == RemoveItem(info, u)
             added == IF new_local = query THEN Append(removed, u) ELSE removed
         IN  UpdateInfo(IF o.local = query /\ IsUse(o.context) THEN added ELSE info,
                        Tail(occs), loc, query, new_local)

SetStatement(m, loc, s) ==
    [m EXCEPT !.blocks[loc.block + 1].statements[loc.statement_index + 1] = s]

\* MutVisitor::visit_location with MutateUseVisitor: rewrites the statement or
\* terminator at loc; gives the body and info[query] afterwards.
MutateLocation(m, info, loc, query, new_local) ==
    LET info2 == [info EXCEPT ![query] = UpdateInfo(@, OccsAt(m, loc), loc, query, new_local)]
    IN  IF IsTerminatorLoc(m, loc)
        THEN [mir |-> [m EXCEPT !.blocks[loc.block + 1].terminator =
                                    MutateTerminator(@, query, new_local)],
              info |-> info2]
        ELSE [mir |-> SetStatement(m, loc, MutateStatement(StatementAt(m, loc), query, new_local)),
              info |-> info2]

\* DefUseAnalysis::mutate_defs_and_uses: one visit_location per entry of a clone of
\* info[local].defs_and_uses.
RECURSIVE MutateDefsAndUses(_, _, _, _, _)
MutateDefsAndUses(defs_and_uses, m, info, local, new_local) ==
    IF defs_and_uses = <<>> THEN [mir |-> m, info |-> info]
    ELSE LET r == MutateLocation(m, info, Head(defs_and_uses).location, local, new_local)
         IN  MutateDefsAndUses(Tail(defs_and_uses), r.mir, r.info, local, new_local)

\* DefUseAnalysis::replace_all_defs_and_uses_with
ReplaceAllDefsAndUsesWith(m, info, local, new_local) ==
    MutateDefsAndUses(info[local], m, info, local, new_local)

\* ---- copy_prop.rs ----

\* make_statement_nop that also pushes a nop at the end of the block.
MakeStatementNopPushed(m, loc) ==
    [SetStatement(m, loc, Nop) EXCEPT !.blocks[loc.block + 1].statements = Append(@, Nop)]

\* Mir::make_statement_nop
MakeStatementNop(m, loc) == SetStatement(m, loc, Nop)

\* The two loops of Action::perform that nop the storage markers recorded for a local.
RECURSIVE NopStorageMarkers(_, _)
NopStorageMarkers(m, dest_uses) ==
    IF dest_uses = <<>> THEN m
    ELSE NopStorageMarkers(
             IF IsStorageMarker(Head(dest_uses).context)
             THEN MakeStatementNop(m, Head(dest_uses).location) ELSE m,
             Tail(dest_uses))

\* LocalCopy without the test of lines 139-144 that the source is a local:
\* the base local of a projection is taken for the source.
LocalCopyThroughProjection(m, info, src_place) ==
    LET src_local == src_place.local
        src_use_count == UseCount(info[src_local])
        src_def_count == DefCountNotIncludingDrop(info[src_local])
        is_arg == LocalKind(m, src_local) = "Arg"
    IN  IF src_use_count # 1 THEN [kind |-> "None"]
        ELSE IF (is_arg /\ src_def_count # 0) \/ (~is_arg /\ src_def_count # 1)
        THEN [kind |-> "None"]
        ELSE [kind |-> "PropagateLocalCopy", src_local |-> src_local]

\* Action::local_copy: the source local of the copy, or "None".
LocalCopy(m, info, src_place) ==
    IF src_place.deref THEN [kind |-> "None"]
    ELSE LET src_local == src_place.local
             src_use_count == UseCount(info[src_local])
             src_def_count == DefCountNotIncludingDrop(info[src_local])
             is_arg == LocalKind(m, src_local) = "Arg"
         IN  IF src_use_count # 1 THEN [kind |-> "None"]
             ELSE IF (is_arg /\ src_def_count # 0) \/ (~is_arg /\ src_def_count # 1)
             THEN [kind |-> "None"]
             ELSE [kind |-> "PropagateLocalCopy", src_local |-> src_local]

\* DestEligible without the test of lines 74-80 that gives up on an argument.
DestEligibleArgumentsToo(m, info, dest) ==
    /\ DefCountNotIncludingDrop(info[dest]) = 1
    /\ UseCount(info[dest]) # 0

\* DestEligible without the test of lines 69-73 that gives up on an unused local.
DestEligibleUnusedToo(m, info, dest) ==
    /\ DefCountNotIncludingDrop(info[dest]) = 1
    /\ LocalKind(m, dest) # "Arg"

\* The eligibility checks of run_pass on the destination (lines 55-80).
DestEligible(m, info, dest) ==
    /\ DefCountNotIncludingDrop(info[dest]) = 1
    /\ UseCount(info[dest]) # 0
    /\ LocalKind(m, dest) # "Arg"

\* The body of the `for dest_local` loop up to the choice of the action (lines 55-118):
\* the action and the location of dest's definition, or "None" for every `continue`.
ChooseAction(m, info, dest) ==
    IF ~DestEligible(m, info, dest) THEN [kind |-> "None"]
    ELSE LET location == DefsNotIncludingDrop(info[dest])[1].location
         IN  IF IsTerminatorLoc(m, location) THEN [kind |-> "None"]
             ELSE LET statement == StatementAt(m, location)
                  IN  IF ~(statement.kind = "Assign" /\ statement.place = Local(dest)
                           /\ statement.rvalue.rv = "Use")
                      THEN [kind |-> "None"]
                      ELSE LET operand == statement.rvalue.operand
                           IN  IF operand.op = "Constant"
                               THEN [kind |-> "PropagateConstant",
                                     constant |-> operand.const, location |-> location]
                               ELSE LET a == LocalCopy(m, info, operand.place)
                                    IN  IF a.kind = "None" THEN a
                                        ELSE [kind |-> "PropagateLocalCopy",
                                              src_local |-> a.src_local,
                                              location |-> location]

\* Action::perform, PropagateLocalCopy arm (lines 196-224).
PerformLocalCopy(m, info, dest, src_local, location) ==
    LET m1 == NopStorageMarkers(m, info[dest])
        m2 == NopStorageMarkers(m1, info[src_local])
        r == ReplaceAllDefsAndUsesWith(m2, info, dest, src_local)
    IN  [mir |-> MakeStatementNop(r.mir, location), info |-> r.info, changed |-> FALSE]

\* ConstantPropagationVisitor::visit_operand
ConstOperand(o, dest, c) ==
    IF o.op # "Constant" /\ o.place = Local(dest) THEN Constant(c) ELSE o

ConstReplacedInOperand(o, dest) ==
    IF o.op # "Constant" /\ o.place = Local(dest) THEN 1 ELSE 0

\* ConstantPropagationVisitor over the statement at one location.
ConstStatement(s, dest, c) ==
    IF s.kind = "Assign" /\ s.rvalue.rv = "Use"
    THEN [s EXCEPT !.rvalue.operand = ConstOperand(@, dest, c)]
    ELSE s

ConstReplacedInStatement(s, dest) ==
    IF s.kind = "Assign" /\ s.rvalue.rv = "Use"
    THEN ConstReplacedInOperand(s.rvalue.operand, dest)
    ELSE 0

\* ConstantPropagationVisitor over a terminator: the operands of a Call.
ConstTerminator(t, dest, c) ==
    IF t.kind = "Call"
    THEN [t EXCEPT !.func = ConstOperand(@, dest, c),
                   !.args = [k \in 1 .. Len(@) |-> ConstOperand(@[k], dest, c)]]
    ELSE t

ConstReplacedInTerminator(t, dest) ==
    IF t.kind = "Call"
    THEN ConstReplacedInOperand(t.func, dest)
         + Len(SelectSeq(t.args, LAMBDA o : ConstReplacedInOperand(o, dest) = 1))
    ELSE 0

\* The loop `for dest_place_use in &dest_local_info.defs_and_uses` of the
\* PropagateConstant arm: the body and visitor.uses_replaced afterwards.
RECURSIVE ConstVisitLocations(_, _, _, _, _)
ConstVisitLocations(dest_uses, m, dest, c, replaced) ==
    IF dest_uses = <<>> THEN [mir |-> m, uses_replaced |-> replaced]
    ELSE LET loc == Head(dest_uses).location
         IN  IF IsTerminatorLoc(m, loc)
             THEN LET t == BlockData(m, loc.block).terminator
                  IN  ConstVisitLocations(Tail(dest_uses),
                          [m EXCEPT !.blocks[loc.block + 1].terminator =
                                        ConstTerminator(t, dest, c)],
                          dest, c, replaced + ConstReplacedInTerminator(t, dest))
             ELSE LET s == StatementAt(m, loc)
                  IN  ConstVisitLocations(Tail(dest_uses),
                          SetStatement(m, loc, ConstStatement(s, dest, c)), dest, c,
                          replaced + ConstReplacedInStatement(s, dest))

\* PerformConstant with the assignment deleted as soon as one use was replaced,
\* instead of the comparison of line 250.
PerformConstantZapsOnAnyUse(m, info, dest, c, location) ==
    LET m1 == NopStorageMarkers(m, info[dest])
        r == ConstVisitLocations(info[dest], m1, dest, c, 0)
    IN  IF r.uses_replaced # 0
        THEN [mir |-> MakeStatementNop(r.mir, location), info |-> info, changed |-> TRUE]
        ELSE [mir |-> r.mir, info |-> info, changed |-> FALSE]

\* PerformConstant that reports a change also when no use was replaced
\* (lines 255-257 returning true).
PerformConstantAlwaysChanged(m, info, dest, c, location) ==
    LET m1 == NopStorageMarkers(m, info[dest])
        r == ConstVisitLocations(info[dest], m1, dest, c, 0)
        use_count == UseCount(info[dest])
    IN  IF r.uses_replaced = use_count
        THEN [mir |-> MakeStatementNop(r.mir, location), info |-> info, changed |-> TRUE]
        ELSE [mir |-> r.mir, info |-> info, changed |-> TRUE]

\* Action::perform, PropagateConstant arm (lines 225-265).
PerformConstant(m, info, dest, c, location) ==
    LET m1 == NopStorageMarkers(m, info[dest])
        r == ConstVisitLocations(info[dest], m1, dest, c, 0)
        use_count == UseCount(info[dest])
    IN  IF r.uses_replaced = use_count
        THEN [mir |-> MakeStatementNop(r.mir, location), info |-> info, changed |-> TRUE]
        ELSE [mir |-> r.mir, info |-> info, changed |-> r.uses_replaced # 0]

\* ---- the meaning of a body: what a caller observes ----

Undef == <<"undef", 0>>
InputValue(l) == <<"input", l>>
ConstValue(c) == <<"const", c>>
RefValue(l) == <<"ref", l>>
CallValue == <<"call", 0>>

\* The locals as the caller leaves them: arguments hold the inputs.
EntryEnv(m) == [l \in Locals |-> IF LocalKind(m, l) = "Arg" THEN InputValue(l) ELSE Undef]

\* Stands for "no local": what a dereference of a non-reference yields.
NoLocal == -1

\* The local a place stands for: the local itself, or the one its value
\* points to; NoLocal when the value is no reference.
PlaceTarget(p, env) ==
    IF ~p.deref THEN p.local
    ELSE IF env[p.local][1] = "ref" THEN env[p.local][2]
    ELSE NoLocal

\* The value an rvalue yields, Undef when it reads an uninitialised or
\* moved-from local.
RvalueValue(r, env) ==
    IF r.rv = "Ref"
    THEN IF PlaceTarget(r.place, env) = NoLocal \/ env[PlaceTarget(r.place, env)] = Undef
         THEN Undef ELSE RefValue(PlaceTarget(r.place, env))
    ELSE IF r.operand.op = "Constant" THEN ConstValue(r.operand.const)
    ELSE IF PlaceTarget(r.operand.place, env) = NoLocal THEN Undef
    ELSE env[PlaceTarget(r.operand.place, env)]

\* The locals after the operand of an rvalue was moved out of.
AfterMove(r, env) ==
    IF r.rv = "Use" /\ r.operand.op = "Move" /\ PlaceTarget(r.operand.place, env) # NoLocal
    THEN [env EXCEPT ![PlaceTarget(r.operand.place, env)] = Undef]
    ELSE env

\* The locals after a Call stored the callee's result in its destination.
AfterCall(t, env) ==
    IF PlaceTarget(t.destination[1][1], env) = NoLocal THEN env
    ELSE [env EXCEPT ![PlaceTarget(t.destination[1][1], env)] = CallValue]

\* Runs block b from statement i on and follows its terminator: a Call goes
\* on to its target block, Return hands the return slot to the caller. `ok`
\* turns FALSE when an uninitialised or moved-from local is read, and the
\* run stops there without a result.
RECURSIVE Exec(_, _, _, _, _)
Exec(m, b, i, env, ok) ==
    LET stmts == BlockData(m, b).statements
        t == BlockData(m, b).terminator
    IN  IF ~ok THEN [ok |-> FALSE, result |-> Undef]
        ELSE IF i > Len(stmts)
        THEN IF t.kind = "Call" /\ t.destination # <<>>
             THEN Exec(m, t.destination[1][2], 1, AfterCall(t, env),
                       ok /\ PlaceTarget(t.destination[1][1], env) # NoLocal)
             ELSE [ok |-> ok, result |-> env[0]]
        ELSE LET s == stmts[i]
             IN  IF s.kind = "Assign"
                 THEN LET v == RvalueValue(s.rvalue, env)
                          env1 == AfterMove(s.rvalue, env)
                          d == PlaceTarget(s.place, env1)
                      IN  Exec(m, b, i + 1,
                               IF d = NoLocal THEN env1 ELSE [env1 EXCEPT ![d] = v],
                               ok /\ v # Undef /\ d # NoLocal)
                 ELSE IF s.kind = "StorageDead"
                 THEN Exec(m, b, i + 1, [env EXCEPT ![s.local] = Undef], ok)
                 ELSE Exec(m, b, i + 1, env, ok)

Observe(m) == Exec(m, 0, 1, EntryEnv(m), TRUE)

\* ---- the bodies the pass is run on ----

\* The local that holds references in the bodies checked.
PointerLocal == NumLocals - 1

StatementForms(arg_count) ==
    {Assign(Local(d), Use(Copy(Local(s)))) : d \in Locals, s \in Locals}
    \cup {Assign(Local(d), Use(Move(Local(s)))) : d \in Locals, s \in Locals}
    \cup {Assign(Local(d), Use(Constant(c))) : d \in Locals, c \in Consts}
    \cup {Assign(Local(PointerLocal), Ref(Local(s))) : s \in Locals \ {PointerLocal}}
    \cup {Assign(Local(d), Use(Copy(Deref(PointerLocal)))) : d \in Locals \ {PointerLocal}}
    \cup {StorageLive(l) : l \in (arg_count + 1) .. (NumLocals - 1)}
    \cup {StorageDead(l) : l \in (arg_count + 1) .. (NumLocals - 1)}
    \cup {Nop}

\* The local a Call of the bodies checked stores its result in.
CallLocal == NumLocals - 2

\* The blocks of a body: the statements in one block that returns, or split
\* in two non-empty blocks after the first k of them by a Call without arguments that stores its
\* result in CallLocal and goes on to block 1.
OneBlock(ss) == <<[statements |-> ss, terminator |-> Return]>>
SplitByCall(ss, k) ==
    <<[statements |-> SubSeq(ss, 1, k),
       terminator |-> Call(Constant(0), <<>>, << <<Local(CallLocal), 1>> >>)],
      [statements |-> SubSeq(ss, k + 1, Len(ss)), terminator |-> Return]>>

\* The statements of every block, in the order of the blocks.
AllStatements(m) == Flatten([b \in 1 .. NumBlocks(m) |-> m.blocks[b].statements])

\* A statement that reads the return slot.
ReadsReturnSlot(s) ==
    \E k \in 1 .. Len(StatementOccs(s)) :
        StatementOccs(s)[k].local = 0 /\ IsNonmutatingUse(StatementOccs(s)[k].context)

\* A body the front end can hand over: no read of an uninitialised local; the
\* return slot is written for the caller and never read back.
WellFormed(m) ==
    /\ LET o == Observe(m) IN o.ok /\ o.result # Undef
    /\ \A i \in 1 .. Len(AllStatements(m)) : ~ReadsReturnSlot(AllStatements(m)[i])

\* The gate of lines 41-43 has let the pass in (see Gate_Init for the call
\* itself) and the analysis of lines 45-46 is made.
CP_Init ==
    /\ \E n \in 0 .. MaxArgs :
       \E ss \in [1 .. NumStatements -> {f \in StatementForms(n) : ~ReadsReturnSlot(f)}] :
           \/ mir = [arg_count |-> n, blocks |-> OneBlock(ss)]
           \/ \E k \in 1 .. (NumStatements - 1) :
                  mir = [arg_count |-> n, blocks |-> SplitByCall(ss, k)]
    /\ WellFormed(mir)
    /\ input = mir
    /\ first_output = <<>>
    /\ mir_opt_level = 1
    /\ run = 1
    /\ pc = "scan"
    /\ changed = FALSE
    /\ def_use_analysis = Analyze(mir)
    /\ dest_local = 0
    /\ performed = <<>>
    /\ scan_mir = mir
    /\ predecessor_map = <<>>
    /\ cur_bb = 0
    /\ uses = <<>>
    /\ dead = {}
    /\ next_block = 0
    /\ call = <<>>

\* ---- run_pass, one action per step of its loops ----

CP_Action == ChooseAction(mir, def_use_analysis, dest_local)

\* One turn of `for dest_local` that ends in a `continue`.
CP_Continue ==
    /\ pc = "scan" /\ dest_local < NumLocals
    /\ CP_Action.kind = "None"
    /\ dest_local' = dest_local + 1
    /\ UNCHANGED <<mir, input, mir_opt_level, first_output, run, pc, changed, def_use_analysis, performed,
                   scan_mir, rd_vars, tf_vars, pm_vars>>

\* One turn that performs Action::PropagateLocalCopy.
CP_PropagateLocalCopy ==
    /\ pc = "scan" /\ dest_local < NumLocals
    /\ CP_Action.kind = "PropagateLocalCopy"
    /\ LET r == PerformLocalCopy(mir, def_use_analysis, dest_local,
                                 CP_Action.src_local, CP_Action.location)
       IN  /\ mir' = r.mir
           /\ def_use_analysis' = r.info
           /\ changed' = (r.changed \/ changed)
    /\ performed' = Append(performed, [dest |-> dest_local, kind |-> "PropagateLocalCopy",
                                       location |-> CP_Action.location])
    /\ dest_local' = dest_local + 1
    /\ UNCHANGED <<input, mir_opt_level, first_output, run, pc, scan_mir, rd_vars, tf_vars, pm_vars>>

\* One turn that performs Action::PropagateConstant.
CP_PropagateConstant ==
    /\ pc = "scan" /\ dest_local < NumLocals
    /\ CP_Action.kind = "PropagateConstant"
    /\ LET r == PerformConstant(mir, def_use_analysis, dest_local,
                                CP_Action.constant, CP_Action.location)
       IN  /\ mir' = r.mir
           /\ def_use_analysis' = r.info
           /\ changed' = (r.changed \/ changed)
    /\ performed' = Append(performed, [dest |-> dest_local, kind |-> "PropagateConstant",
                                       location |-> CP_Action.location])
    /\ dest_local' = dest_local + 1
    /\ UNCHANGED <<input, mir_opt_level, first_output, run, pc, scan_mir, rd_vars, tf_vars, pm_vars>>

\* `if !changed { break }` failing: the outer loop starts its next scan.
CP_Repeat ==
    /\ pc = "scan" /\ dest_local = NumLocals /\ changed
    /\ changed' = FALSE
    /\ dest_local' = 0
    /\ scan_mir' = mir
    /\ UNCHANGED <<mir, input, mir_opt_level, first_output, run, pc, def_use_analysis, performed, rd_vars, tf_vars, pm_vars>>

\* `if !changed { break }`: run_pass returns.
CP_Break ==
    /\ pc = "scan" /\ dest_local = NumLocals /\ ~changed
    /\ pc' = "done"
    /\ UNCHANGED <<mir, input, mir_opt_level, first_output, run, changed, def_use_analysis, dest_local,
                   performed, scan_mir, rd_vars, tf_vars, pm_vars>>

\* The pass is run again on the body it returned.
CP_RunAgain ==
    /\ pc = "done" /\ run = 1
    /\ run' = 2
    /\ first_output' = mir
    /\ pc' = "scan"
    /\ changed' = FALSE
    /\ def_use_analysis' = Analyze(mir)
    /\ dest_local' = 0
    /\ performed' = <<>>
    /\ scan_mir' = mir
    /\ UNCHANGED <<mir, input, mir_opt_level, rd_vars, tf_vars, pm_vars>>

CP_Next ==
    \/ CP_Continue
    \/ CP_PropagateLocalCopy
    \/ CP_PropagateConstant
    \/ CP_Repeat
    \/ CP_Break
    \/ CP_RunAgain

SpecCP == CP_Init /\ [][CP_Next]_vars

\* ---- run_pass from its first line: the gate on the optimization level ----

MaxOptLevel == 2

\* run_pass is called with a body of the family above, at any level.
Gate_Init ==
    /\ \E n \in 0 .. MaxArgs :
       \E ss \in [1 .. NumStatements -> {f \in StatementForms(n) : ~ReadsReturnSlot(f)}] :
           \/ mir = [arg_count |-> n, blocks |-> OneBlock(ss)]
           \/ \E k \in 1 .. (NumStatements - 1) :
                  mir = [arg_count |-> n, blocks |-> SplitByCall(ss, k)]
    /\ WellFormed(mir)
    /\ mir_opt_level \in 0 .. MaxOptLevel
    /\ input = mir
    /\ first_output = <<>>
    /\ run = 1
    /\ pc = "entry"
    /\ changed = FALSE
    /\ def_use_analysis = <<>>
    /\ dest_local = 0
    /\ performed = <<>>
    /\ scan_mir = mir
    /\ predecessor_map = <<>>
    /\ cur_bb = 0
    /\ uses = <<>>
    /\ dead = {}
    /\ next_block = 0
    /\ call = <<>>

\* Lines 41-43: `if mir_opt_level < 1 { return; }`.
Gate_Return ==
    /\ pc = "entry" /\ mir_opt_level < 1
    /\ pc' = "skipped"
    /\ UNCHANGED <<mir, input, mir_opt_level, first_output, run, changed, cp_vars,
                   rd_vars, tf_vars, pm_vars>>

\* Lines 45-46: the gate is passed and the analysis is made.
Gate_Enter ==
    /\ pc = "entry" /\ ~(mir_opt_level < 1)
    /\ def_use_analysis' = Analyze(mir)
    /\ pc' = "scan"
    /\ UNCHANGED <<mir, input, mir_opt_level, first_output, run, changed, dest_local,
                   performed, scan_mir, rd_vars, tf_vars, pm_vars>>

Gate_Next ==
    \/ Gate_Return
    \/ Gate_Enter
    \/ CP_Next

SpecGate == Gate_Init /\ [][Gate_Next]_vars

(***************************************************************************)
(*                          PART II: RemoveDrops                           *)
(***************************************************************************)

\* Bounds of the bodies RemoveDrops is run on.
RD_NumBlocks == 2
RD_MaxStatements == 2

RD_Blocks == 0 .. (RD_NumBlocks - 1)

\* ---- the MIR the pass reads (rustc::mir::repr) ----
Var(i) == [lv |-> "Var", index |-> i]
Temp(i) == [lv |-> "Temp", index |-> i]
Consume(l) == [op |-> "Consume", lvalue |-> l]
InlineAsm(outs, ins) == [rv |-> "InlineAsm", outputs |-> outs, inputs |-> ins]
\* Rvalue::Len
RvalueLen(l) == [rv |-> "Len", place |-> l]
Goto(t) == [kind |-> "Goto", target |-> t]
\* `unwind` and `destination` are Options: <<>> is None, <<x>> is Some(x);
\* a destination is the pair <<lvalue, block>>.
Drop(v, t, u) == [kind |-> "Drop", value |-> v, target |-> t, unwind |-> u]
If(c, t, e) == [kind |-> "If", cond |-> c, targets |-> <<t, e>>]

\* ---- predecessor_map.rs ----

\* The visit_branch calls of super_terminator_kind, in order.
Successors(t) ==
    CASE t.kind = "Goto" -> <<t.target>>
      [] t.kind = "Drop" -> <<t.target>> \o t.unwind
      [] t.kind = "If" -> t.targets
      [] t.kind = "Call" -> IF t.destination = <<>> THEN <<>> ELSE <<t.destination[1][2]>>
      [] OTHER -> <<>>

\* add_predecessor that records a predecessor of a block once only.
AddPredecessorOnce(map, block, predecessor) ==
    IF \E k \in 1 .. Len(map[block + 1]) : map[block + 1][k] = predecessor
    THEN map
    ELSE [map EXCEPT ![block + 1] = Append(@, predecessor)]

\* PredecessorMap::add_predecessor
AddPredecessor(map, block, predecessor) ==
    [map EXCEPT ![block + 1] = Append(@, predecessor)]

\* PredecessorVisitor::visit_branch for every successor of one terminator.
RECURSIVE VisitBranches(_, _, _)
VisitBranches(map, source, targets) ==
    IF targets = <<>> THEN map
    ELSE VisitBranches(AddPredecessor(map, Head(targets), source), source, Tail(targets))

\* PredecessorVisitor::visit_mir over the blocks from index b on.
RECURSIVE VisitBlocks(_, _, _)
VisitBlocks(map, m, b) ==
    IF b >= NumBlocks(m) THEN map
    ELSE VisitBlocks(VisitBranches(map, b, Successors(BlockData(m, b).terminator)), m, b + 1)

\* build_predecessor_map
BuildPredecessorMap(m) == VisitBlocks([b \in 1 .. NumBlocks(m) |-> <<>>], m, 0)

\* PredecessorMap::predecessors
Predecessors(map, block) == map[block + 1]

\* PredecessorMap::new
NewPredecessorMap(num_blocks) == [b \in 1 .. num_blocks |-> <<>>]

\* Iterator::position: Some(index of the first element equal to x) or None,
\* the index counted from 0.
Position(v, x) ==
    IF \E k \in 1 .. Len(v) : v[k] = x
    THEN <<(CHOOSE k \in 1 .. Len(v) : v[k] = x /\ \A j \in 1 .. (k - 1) : v[j] # x) - 1>>
    ELSE <<>>

\* A removal that drops the last element whatever the index.
SwapRemoveLast(v, index) == SubSeq(v, 1, Len(v) - 1)

\* Vec::swap_remove: the last element takes the place of the removed one.
SwapRemove(v, index) ==
    SubSeq([v EXCEPT ![index + 1] = v[Len(v)]], 1, Len(v) - 1)

\* remove_predecessor that returns normally when the predecessor is missing.
RemovePredecessorIgnoringMissing(map, block, predecessor) ==
    LET pos == Position(map[block + 1], predecessor)
    IN  IF pos = <<>> THEN [panicked |-> FALSE, map |-> map]
        ELSE [panicked |-> FALSE,
              map |-> [map EXCEPT ![block + 1] = SwapRemove(@, pos[1])]]

\* PredecessorMap::remove_predecessor: `expect` panics on None, before the
\* map is touched.
RemovePredecessor(map, block, predecessor) ==
    LET pos == Position(map[block + 1], predecessor)
    IN  IF pos = <<>> THEN [panicked |-> TRUE, map |-> map]
        ELSE [panicked |-> FALSE,
              map |-> [map EXCEPT ![block + 1] = SwapRemove(@, pos[1])]]

\* PredecessorMap::replace_predecessor: a panic of remove_predecessor leaves
\* add_predecessor uncalled.
ReplacePredecessor(map, block, old, new) ==
    LET r == RemovePredecessor(map, block, old)
    IN  IF r.panicked THEN r
        ELSE [panicked |-> FALSE, map |-> AddPredecessor(r.map, block, new)]

\* ---- remove_drops.rs ----

Contains(v, x) == \E k \in 1 .. Len(v) : v[k] = x

ConsumesAny(operands, droppee) == Contains(operands, Consume(droppee))

\* InspectTerminator in which a Call that consumes the droppee lets the
\* search fall through to the statements of its block.
InspectTerminatorArgumentsIgnored(t, droppee, cur, bb) ==
    CASE t.kind = "Drop" ->
            IF t.value = droppee /\ cur # bb THEN "NextItem" ELSE "Scan"
      [] t.kind = "Call" ->
            IF t.destination # <<>> /\ t.destination[1][1] = droppee THEN "Abort"
            ELSE "Scan"
      [] OTHER -> "Scan"

\* The match on the terminator of an inspected block (lines 42-73):
\* "Abort" is `replacement = None; break 'work`, "NextItem" is `continue` /
\* `continue 'work`, "Scan" falls through to the statements.
InspectTerminator(t, droppee, cur, bb) ==
    CASE t.kind = "Drop" ->
            IF t.value = droppee /\ cur # bb THEN "NextItem" ELSE "Scan"
      [] t.kind = "Call" ->
            IF t.destination # <<>> /\ t.destination[1][1] = droppee THEN "Abort"
            ELSE IF ConsumesAny(t.args, droppee) THEN "NextItem"
            ELSE "Scan"
      [] OTHER -> "Scan"

\* InspectStatement without the `lvalue == droppee` test.
InspectStatementAssignmentUnchecked(s, droppee) ==
    CASE s.rvalue.rv = "Use" ->
            IF s.rvalue.operand = Consume(droppee) THEN "NextItem" ELSE "Scan"
      [] s.rvalue.rv = "BinaryOp" ->
            IF Consume(droppee) \in {s.rvalue.lhs, s.rvalue.rhs} THEN "NextItem" ELSE "Scan"
      [] s.rvalue.rv = "InlineAsm" ->
            IF Contains(s.rvalue.outputs, droppee) THEN "Abort"
            ELSE IF ConsumesAny(s.rvalue.inputs, droppee) THEN "NextItem"
            ELSE "Scan"
      [] OTHER -> "Scan"

\* InspectStatement with the operands of the rvalue matched before the
\* `lvalue == droppee` test.
InspectStatementOperandsFirst(s, droppee) ==
    LET r == InspectStatementAssignmentUnchecked(s, droppee)
    IN  IF r # "Scan" THEN r
        ELSE IF s.place = droppee THEN "Abort" ELSE "Scan"

\* InspectStatement in which Rvalue::Ref and Rvalue::Len of the droppee end
\* the search of the block like a consuming operand.
InspectStatementAddressSatisfies(s, droppee) ==
    IF s.place = droppee THEN "Abort"
    ELSE IF s.rvalue.rv \in {"Ref", "Len"} /\ s.rvalue.place = droppee THEN "NextItem"
    ELSE InspectStatementAssignmentUnchecked(s, droppee)

\* The match on one statement (lines 75-141): "Abort", "NextItem", or "Scan" to go
\* on to the statement before it.
InspectStatement(s, droppee) ==
    IF s.place = droppee THEN "Abort"
    ELSE CASE s.rvalue.rv = "Use" ->
                 IF s.rvalue.operand = Consume(droppee) THEN "NextItem" ELSE "Scan"
           [] s.rvalue.rv = "BinaryOp" ->
                 IF Consume(droppee) \in {s.rvalue.lhs, s.rvalue.rhs}
                 THEN "NextItem" ELSE "Scan"
           [] s.rvalue.rv = "InlineAsm" ->
                 IF Contains(s.rvalue.outputs, droppee) THEN "Abort"
                 ELSE IF ConsumesAny(s.rvalue.inputs, droppee) THEN "NextItem"
                 ELSE "Scan"
           [] OTHER -> "Scan"

\* ScanStatements taking the statements in program order: i counts the
\* statements still to look at.
RECURSIVE ScanStatementsForward(_, _, _)
ScanStatementsForward(stmts, i, droppee) ==
    IF i = 0 THEN "Scan"
    ELSE LET r == InspectStatement(stmts[Len(stmts) - i + 1], droppee)
         IN  IF r = "Scan" THEN ScanStatementsForward(stmts, i - 1, droppee) ELSE r

\* `for statement in data.statements.iter().rev()`, from statement i down.
RECURSIVE ScanStatements(_, _, _)
ScanStatements(stmts, i, droppee) ==
    IF i = 0 THEN "Scan"
    ELSE LET r == InspectStatement(stmts[i], droppee)
         IN  IF r = "Scan" THEN ScanStatements(stmts, i - 1, droppee) ELSE r

\* InspectBlock in which a use found among the statements does not end the
\* scan of the block.
InspectBlockUsesIgnored(m, bb, droppee, cur) ==
    LET data == BlockData(m, bb)
        r == InspectTerminator(data.terminator, droppee, cur, bb)
        RECURSIVE Scan(_)
        Scan(i) ==
            IF i = 0 THEN "Scan"
            ELSE IF InspectStatement(data.statements[i], droppee) = "Abort" THEN "Abort"
            ELSE Scan(i - 1)
    IN  IF r = "Scan" THEN Scan(Len(data.statements)) ELSE r

\* InspectBlock in which the Drop of the droppee ending another block lets
\* the search scan the statements of that block.
InspectBlockPriorDropScanned(m, bb, droppee, cur) ==
    LET data == BlockData(m, bb)
        r == InspectTerminator(data.terminator, droppee, cur, bb)
        st == ScanStatements(data.statements, Len(data.statements), droppee)
    IN  IF data.terminator.kind = "Drop" /\ r = "NextItem"
        THEN (IF st = "Abort" THEN "Abort" ELSE "NextItem")
        ELSE IF r = "Scan" THEN st
        ELSE r

\* What the search does with one block it has not seen yet.
InspectBlock(m, bb, droppee, cur) ==
    LET data == BlockData(m, bb)
        r == InspectTerminator(data.terminator, droppee, cur, bb)
    IN  IF r = "Scan" THEN ScanStatements(data.statements, Len(data.statements), droppee)
        ELSE r

\* Work in which reaching a block without predecessors aborts the search.
RECURSIVE WorkStartAborts(_, _, _, _, _, _)
WorkStartAborts(m, map, cur, droppee, worklist, seen) ==
    IF worklist = <<>> THEN TRUE
    ELSE LET bb == worklist[Len(worklist)]
             rest == SubSeq(worklist, 1, Len(worklist) - 1)
         IN  IF Contains(seen, bb) THEN WorkStartAborts(m, map, cur, droppee, rest, seen)
             ELSE LET r == InspectBlock(m, bb, droppee, cur)
                      seen2 == Append(seen, bb)
                  IN  CASE r = "Abort" -> FALSE
                        [] r = "NextItem" ->
                               WorkStartAborts(m, map, cur, droppee, rest, seen2)
                        [] OTHER ->
                               /\ Predecessors(map, bb) # <<>>
                               /\ WorkStartAborts(m, map, cur, droppee,
                                                  rest \o Predecessors(map, bb), seen2)

\* The 'work loop (lines 34-151): TRUE when the worklist drains with the
\* replacement still Some(Goto), FALSE when a block aborts the search.
RECURSIVE Work(_, _, _, _, _, _)
Work(m, map, cur, droppee, worklist, seen) ==
    IF worklist = <<>> THEN TRUE
    ELSE LET bb == worklist[Len(worklist)]
             rest == SubSeq(worklist, 1, Len(worklist) - 1)
         IN  IF Contains(seen, bb) THEN Work(m, map, cur, droppee, rest, seen)
             ELSE LET r == InspectBlock(m, bb, droppee, cur)
                      seen2 == Append(seen, bb)
                  IN  CASE r = "Abort" -> FALSE
                        [] r = "NextItem" -> Work(m, map, cur, droppee, rest, seen2)
                        [] OTHER -> Work(m, map, cur, droppee,
                                         rest \o Predecessors(map, bb), seen2)

\* WorkIterations without the `seen` test of lines 36-40.
RECURSIVE WorkIterationsSeenIgnored(_, _, _, _, _, _, _)
WorkIterationsSeenIgnored(m, map, cur, droppee, worklist, seen, limit) ==
    IF worklist = <<>> \/ limit = 0 THEN 0
    ELSE LET bb == worklist[Len(worklist)]
             rest == SubSeq(worklist, 1, Len(worklist) - 1)
             r == InspectBlock(m, bb, droppee, cur)
             seen2 == Append(seen, bb)
         IN  CASE r = "Abort" -> 1
               [] r = "NextItem" ->
                      1 + WorkIterationsSeenIgnored(m, map, cur, droppee, rest, seen2,
                                                    limit - 1)
               [] OTHER ->
                      1 + WorkIterationsSeenIgnored(m, map, cur, droppee,
                                                    rest \o Predecessors(map, bb), seen2,
                                                    limit - 1)

\* The number of turns the 'work loop (lines 34-151) takes before the
\* worklist is empty or a `break 'work` leaves it, counted up to `limit` turns.
RECURSIVE WorkIterations(_, _, _, _, _, _, _)
WorkIterations(m, map, cur, droppee, worklist, seen, limit) ==
    IF worklist = <<>> \/ limit = 0 THEN 0
    ELSE LET bb == worklist[Len(worklist)]
             rest == SubSeq(worklist, 1, Len(worklist) - 1)
         IN  IF Contains(seen, bb)
             THEN 1 + WorkIterations(m, map, cur, droppee, rest, seen, limit - 1)
             ELSE LET r == InspectBlock(m, bb, droppee, cur)
                      seen2 == Append(seen, bb)
                  IN  CASE r = "Abort" -> 1
                        [] r = "NextItem" ->
                               1 + WorkIterations(m, map, cur, droppee, rest, seen2,
                                                  limit - 1)
                        [] OTHER ->
                               1 + WorkIterations(m, map, cur, droppee,
                                                  rest \o Predecessors(map, bb), seen2,
                                                  limit - 1)

\* Replacement that goes back to the block of the Drop itself.
ReplacementToSelf(m, map, cur) ==
    LET t == BlockData(m, cur).terminator
    IN  IF t.kind = "Drop" /\ Work(m, map, cur, t.value, <<cur>>, <<>>)
        THEN <<Goto(cur)>>
        ELSE <<>>

\* Replacement that goes to the unwind block of the Drop when it has one.
ReplacementToUnwind(m, map, cur) ==
    LET t == BlockData(m, cur).terminator
    IN  IF t.kind = "Drop" /\ Work(m, map, cur, t.value, <<cur>>, <<>>)
        THEN (IF t.unwind # <<>> THEN <<Goto(t.unwind[1])>> ELSE <<Goto(t.target)>>)
        ELSE <<>>

\* The `replacement` computed for cur_bb (lines 28-155): <<>> is None.
Replacement(m, map, cur) ==
    LET t == BlockData(m, cur).terminator
    IN  IF t.kind = "Drop" /\ Work(m, map, cur, t.value, <<cur>>, <<>>)
        THEN <<Goto(t.target)>>
        ELSE <<>>

\* ---- the bodies the pass is run on ----

RD_Value == Var(0)
RD_Other == Var(1)
RD_Sink == Var(2)

RD_StatementForms ==
    { Assign(RD_Value, Use(Constant(1))),
      Assign(RD_Sink, Use(Consume(RD_Value))),
      Assign(RD_Sink, Ref(RD_Value)),
      Assign(RD_Sink, InlineAsm(<<RD_Value>>, <<>>)) }

\* Lists that read the length of the value, alone and after an assignment
\* to it, and the list that assigns the value from itself.
RD_MoreStatementLists ==
    { <<Assign(RD_Sink, RvalueLen(RD_Value))>>,
      <<Assign(RD_Value, Use(Constant(1))), Assign(RD_Sink, RvalueLen(RD_Value))>>,
      <<Assign(RD_Value, Use(Consume(RD_Value)))>> }

RD_StatementLists ==
    UNION {[1 .. n -> RD_StatementForms] : n \in 0 .. RD_MaxStatements}
    \cup RD_MoreStatementLists

RD_Options == {<<>>} \cup {<<b>> : b \in RD_Blocks}

RD_Terminators ==
    {Return}
    \cup {Goto(t) : t \in RD_Blocks}
    \cup {Drop(RD_Value, t, u) : t \in RD_Blocks, u \in RD_Options}
    \cup {Drop(RD_Other, t, u) : t \in RD_Blocks, u \in RD_Options}
    \cup {Call(Constant(0), <<Consume(RD_Value)>>, <<<<RD_Sink, t>>>>) : t \in RD_Blocks}
    \cup {Call(Constant(0), <<>>, <<<<RD_Value, t>>>>) : t \in RD_Blocks}

\* Blocks that lead to block 0: by Goto, by a Call that consumes the value
\* or stores into it, by a Drop of the value; empty or assigning the value.
RD_JoinBlocks ==
    [statements : {<<>>, <<Assign(RD_Value, Use(Constant(1)))>>,
                   <<Assign(RD_Sink, Use(Consume(RD_Value)))>>},
     terminator : {Goto(0), Drop(RD_Value, 0, <<>>),
                   Call(Constant(0), <<Consume(RD_Value)>>, <<<<RD_Sink, 0>>>>),
                   Call(Constant(0), <<>>, <<<<RD_Value, 0>>>>)}]

\* Bodies of one block more, in which the Drop of the value ending block 0 is
\* reached from the other blocks.
RD_JoinEntry == [statements |-> <<>>, terminator |-> Drop(RD_Value, 1, <<>>)]

RD_JoinBodies == {<<RD_JoinEntry>> \o bs : bs \in [1 .. RD_NumBlocks -> RD_JoinBlocks]}

RD_Init ==
    /\ \/ \E bs \in [1 .. RD_NumBlocks ->
                       [statements : RD_StatementLists, terminator : RD_Terminators]] :
              mir = [blocks |-> bs]
       \/ \E bs \in RD_JoinBodies : mir = [blocks |-> bs]
    /\ input = mir
    /\ first_output = <<>>
    /\ mir_opt_level = 1
    /\ run = 1
    /\ pc = "scan"
    /\ changed = FALSE
    /\ predecessor_map = BuildPredecessorMap(mir)
    /\ cur_bb = 0
    /\ def_use_analysis = <<>>
    /\ dest_local = 0
    /\ performed = <<>>
    /\ scan_mir = mir
    /\ uses = <<>>
    /\ dead = {}
    /\ next_block = 0
    /\ call = <<>>

\* ---- run_pass, one action per step of its loops ----

RD_Replacement == Replacement(mir, predecessor_map, cur_bb)

\* One turn of `for cur_bb` whose replacement is None.
RD_Keep ==
    /\ pc = "scan" /\ cur_bb < NumBlocks(mir)
    /\ RD_Replacement = <<>>
    /\ cur_bb' = cur_bb + 1
    /\ UNCHANGED <<mir, input, mir_opt_level, first_output, run, pc, changed, predecessor_map, cp_vars, tf_vars, pm_vars>>

\* One turn of `for cur_bb` that sets the terminator to the replacement.
RD_Replace ==
    /\ pc = "scan" /\ cur_bb < NumBlocks(mir)
    /\ RD_Replacement # <<>>
    /\ changed' = TRUE
    /\ mir' = [mir EXCEPT !.blocks[cur_bb + 1].terminator = RD_Replacement[1]]
    /\ cur_bb' = cur_bb + 1
    /\ UNCHANGED <<input, mir_opt_level, first_output, run, pc, predecessor_map, cp_vars, tf_vars, pm_vars>>

\* `if !changed { break }` failing: the next outer iteration rebuilds the map.
RD_Repeat ==
    /\ pc = "scan" /\ cur_bb = NumBlocks(mir) /\ changed
    /\ changed' = FALSE
    /\ predecessor_map' = BuildPredecessorMap(mir)
    /\ cur_bb' = 0
    /\ UNCHANGED <<mir, input, mir_opt_level, first_output, run, pc, cp_vars, tf_vars, pm_vars>>

\* `if !changed { break }`: run_pass returns.
RD_Break ==
    /\ pc = "scan" /\ cur_bb = NumBlocks(mir) /\ ~changed
    /\ pc' = "done"
    /\ UNCHANGED <<mir, input, mir_opt_level, first_output, run, changed, predecessor_map, cur_bb, cp_vars, tf_vars, pm_vars>>

RD_Next ==
    \/ RD_Keep
    \/ RD_Replace
    \/ RD_Repeat
    \/ RD_Break

SpecRD == RD_Init /\ [][RD_Next]_vars

(***************************************************************************)
(*                          PART III: TmpForward                           *)
(***************************************************************************)

\* Bounds of the bodies TmpForward is run on.
TF_NumTemps == 2
TF_MaxStatements == 3

Field(l) == [lv |-> "Projection", base |-> l]
BinaryOp(a, b) == [rv |-> "BinaryOp", lhs |-> a, rhs |-> b]

\* ---- the traversal of rustc::mir::visit, as the three visitors use it ----

\* The Temp indices visit_lvalue comes to in one lvalue.
RECURSIVE LvalueTemps(_)
LvalueTemps(l) ==
    CASE l.lv = "Temp" -> <<l.index>>
      [] l.lv = "Projection" -> LvalueTemps(l.base)
      [] OTHER -> <<>>

OperandTemps(o) == IF o.op = "Consume" THEN LvalueTemps(o.lvalue) ELSE <<>>

OperandsTemps(os) == Flatten([k \in 1 .. Len(os) |-> OperandTemps(os[k])])

RvalueTemps(r) ==
    CASE r.rv = "Use" -> OperandTemps(r.operand)
      [] r.rv = "Ref" -> LvalueTemps(r.place)
      [] r.rv = "BinaryOp" -> OperandTemps(r.lhs) \o OperandTemps(r.rhs)
      [] r.rv = "InlineAsm" ->
            Flatten([k \in 1 .. Len(r.outputs) |-> LvalueTemps(r.outputs[k])])
                \o OperandsTemps(r.inputs)

AssignTemps(s) == LvalueTemps(s.place) \o RvalueTemps(s.rvalue)

\* `drop_value` says whether the value of a Drop is visited.
TerminatorTemps(t, drop_value) ==
    CASE t.kind = "If" -> OperandTemps(t.cond)
      [] t.kind = "Call" ->
            OperandTemps(t.func) \o OperandsTemps(t.args)
                \o (IF t.destination = <<>> THEN <<>> ELSE LvalueTemps(t.destination[1][1]))
      [] t.kind = "Drop" -> IF drop_value THEN LvalueTemps(t.value) ELSE <<>>
      [] OTHER -> <<>>

BlockTemps(data, drop_value) ==
    Flatten([k \in 1 .. Len(data.statements) |-> AssignTemps(data.statements[k])])
        \o TerminatorTemps(data.terminator, drop_value)

MirTemps(m, drop_value) ==
    Flatten([b \in 1 .. Len(m.blocks) |-> BlockTemps(m.blocks[b], drop_value)])

\* ---- tmp_forward.rs ----

\* An index into a Vec of length n that is out of bounds panics.
OutOfBounds(indices, n) == \E k \in 1 .. Len(indices) : indices[k] >= n

\* TempCollector: visit_lvalue counts every Temp it comes to, and
\* visit_terminator_kind keeps it away from the value of a Drop.
CollectUses(m) ==
    [idx \in 1 .. Len(m.temp_decls) |->
        LET IsIdx(x) == x = idx - 1 IN Count(MirTemps(m, FALSE), IsIdx)]

\* r.operands_mut(): the operands an rvalue holds directly, in order.
OperandsMut(r) ==
    CASE r.rv = "Use" -> <<r.operand>>
      [] r.rv = "BinaryOp" -> <<r.lhs, r.rhs>>
      [] r.rv = "InlineAsm" -> r.inputs
      [] OTHER -> <<>>

\* The rvalue with the k-th of those operands set to op.
SetOperand(r, k, op) ==
    CASE r.rv = "Use" -> Use(op)
      [] r.rv = "BinaryOp" -> IF k = 1 THEN BinaryOp(op, r.rhs) ELSE BinaryOp(r.lhs, op)
      [] r.rv = "InlineAsm" -> [r EXCEPT !.inputs[k] = op]

\* The first operand of r that is Consume(Temp(idx)): its position, or 0.
FirstConsumer(r, idx) ==
    LET ops == OperandsMut(r)
        hits == {k \in 1 .. Len(ops) : ops[k] = Consume(Temp(idx))}
    IN  IF hits = {} THEN 0 ELSE CHOOSE k \in hits : \A j \in hits : k <= j

\* Lines 55-75: what `replacement` = Some((idx, rvalue)) does to the rvalue r
\* of the statement after the definition. <<>> when nothing is substituted.
Substitute(replacement, r) ==
    LET idx == replacement.idx
        rvalue == replacement.rvalue
    IN  IF rvalue.rv = "Use"
        THEN IF FirstConsumer(r, idx) # 0
             THEN <<SetOperand(r, FirstConsumer(r, idx), rvalue.operand)>>
             ELSE <<>>
        ELSE IF r = Use(Consume(Temp(idx))) THEN <<rvalue>> ELSE <<>>

\* Lines 78-82 without the test of line 79: every assignment to a temporary
\* leaves a `replacement`, whatever the count of the temporary.
ReplacementOfAnyCount(s, temp_uses) ==
    IF s.place.lv = "Temp"
    THEN <<[idx |-> s.place.index, rvalue |-> s.rvalue]>>
    ELSE <<>>

\* Lines 78-82: the `replacement` a statement leaves for the next one.
ReplacementOf(s, temp_uses) ==
    IF s.place.lv = "Temp" /\ temp_uses[s.place.index + 1] = 2
    THEN <<[idx |-> s.place.index, rvalue |-> s.rvalue]>>
    ELSE <<>>

Swap(v, i, j) == [v EXCEPT ![i] = v[j], ![j] = v[i]]

\* That loop without the swap of lines 84-86: the statements stay where they
\* are and the truncation takes whatever the list ends with.
RECURSIVE PromoteStatementsUnswapped(_, _, _, _, _, _)
PromoteStatementsUnswapped(stmts, i, dropped, replacement, dead_temps, temp_uses) ==
    IF i > Len(stmts)
    THEN [statements |-> stmts, dropped |-> dropped,
          replacement |-> replacement, dead |-> dead_temps]
    ELSE LET sub == IF replacement = <<>> THEN <<>>
                    ELSE Substitute(replacement[1], stmts[i].rvalue)
             s == IF sub = <<>> THEN stmts[i] ELSE [stmts[i] EXCEPT !.rvalue = sub[1]]
             dropped2 == IF sub = <<>> THEN dropped ELSE dropped + 1
             dead2 == IF sub = <<>> THEN dead_temps
                      ELSE dead_temps \cup {replacement[1].idx}
         IN  PromoteStatementsUnswapped([stmts EXCEPT ![i] = s], i + 1, dropped2,
                                        ReplacementOf(s, temp_uses), dead2, temp_uses)

\* The `for i in 0..data.statements.len()` loop from statement i on (lines
\* 54-87); the statements are numbered from 1 here.
RECURSIVE PromoteStatements(_, _, _, _, _, _)
PromoteStatements(stmts, i, dropped, replacement, dead_temps, temp_uses) ==
    IF i > Len(stmts)
    THEN [statements |-> stmts, dropped |-> dropped,
          replacement |-> replacement, dead |-> dead_temps]
    ELSE LET sub == IF replacement = <<>> THEN <<>>
                    ELSE Substitute(replacement[1], stmts[i].rvalue)
             s == IF sub = <<>> THEN stmts[i] ELSE [stmts[i] EXCEPT !.rvalue = sub[1]]
             dropped2 == IF sub = <<>> THEN dropped ELSE dropped + 1
             dead2 == IF sub = <<>> THEN dead_temps
                      ELSE dead_temps \cup {replacement[1].idx}
             stmts2 == [stmts EXCEPT ![i] = s]
             stmts3 == IF dropped2 > 0 THEN Swap(stmts2, i, i - dropped2) ELSE stmts2
         IN  PromoteStatements(stmts3, i + 1, dropped2, ReplacementOf(s, temp_uses),
                               dead2, temp_uses)

\* Lines 89-103: the terminator when the last statement left `replacement`.
\* <<>> when nothing is substituted.
SubstituteTerminator(replacement, t) ==
    IF replacement # <<>> /\ replacement[1].rvalue.rv = "Use"
    THEN CASE t.kind = "If" ->
                 IF t.cond = Consume(Temp(replacement[1].idx))
                 THEN <<[t EXCEPT !.cond = replacement[1].rvalue.operand]>> ELSE <<>>
           [] t.kind = "Call" ->
                 IF t.func = Consume(Temp(replacement[1].idx))
                 THEN <<[t EXCEPT !.func = replacement[1].rvalue.operand]>> ELSE <<>>
           [] OTHER -> <<>>
    ELSE <<>>

\* One turn of the `loop` of Promoter::visit_basic_block_data (lines 52-105).
PromoteOnce(data, dead_temps, temp_uses) ==
    LET r == PromoteStatements(data.statements, 1, 0, <<>>, dead_temps, temp_uses)
        sub == SubstituteTerminator(r.replacement, data.terminator)
        dropped == IF sub = <<>> THEN r.dropped ELSE r.dropped + 1
    IN  [data |-> [statements |-> SubSeq(r.statements, 1, Len(r.statements) - dropped),
                   terminator |-> IF sub = <<>> THEN data.terminator ELSE sub[1]],
         dead |-> IF sub = <<>> THEN r.dead ELSE r.dead \cup {r.replacement[1].idx},
         dropped |-> dropped]

\* Promoter::visit_basic_block_data: the `loop` of lines 51-109.
RECURSIVE PromoteBlock(_, _, _)
PromoteBlock(data, dead_temps, temp_uses) ==
    LET r == PromoteStatements(data.statements, 1, 0, <<>>, dead_temps, temp_uses)
        sub == SubstituteTerminator(r.replacement, data.terminator)
        dropped == IF sub = <<>> THEN r.dropped ELSE r.dropped + 1
        dead2 == IF sub = <<>> THEN r.dead ELSE r.dead \cup {r.replacement[1].idx}
        data2 == [statements |-> SubSeq(r.statements, 1, Len(r.statements) - dropped),
                  terminator |-> IF sub = <<>> THEN data.terminator ELSE sub[1]]
    IN  IF dropped = 0 THEN [data |-> data2, dead |-> dead2]
        ELSE PromoteBlock(data2, dead2, temp_uses)

\* The number of turns that `loop` takes before its `break`, counted up to
\* `limit` turns.
RECURSIVE PromoteBlockIterations(_, _, _, _)
PromoteBlockIterations(data, dead_temps, temp_uses, limit) ==
    LET r == PromoteOnce(data, dead_temps, temp_uses)
    IN  IF r.dropped = 0 \/ limit <= 1 THEN 1
        ELSE 1 + PromoteBlockIterations(r.data, r.dead, temp_uses, limit - 1)

\* run_pass lines 151-166, from alive_index on (indices from 0 as in the code).
RECURSIVE Compact(_, _, _, _, _)
Compact(temp_decls, replacements, dead_temps, alive_index, used_temps) ==
    IF alive_index = Len(temp_decls)
    THEN [temp_decls |-> temp_decls, replacements |-> replacements,
          used_temps |-> used_temps]
    ELSE IF alive_index \in dead_temps
    THEN Compact(temp_decls, replacements, dead_temps, alive_index + 1, used_temps)
    ELSE Compact(IF alive_index # used_temps
                 THEN Swap(temp_decls, alive_index + 1, used_temps + 1)
                 ELSE temp_decls,
                 [replacements EXCEPT ![alive_index + 1] = used_temps],
                 dead_temps, alive_index + 1, used_temps + 1)

\* Updater::visit_terminator_kind without lines 129-133: a Drop stays a Drop.
UpdateDropKept(t, dead_temps) == t

\* Updater::visit_terminator_kind, the part before super_terminator_kind.
UpdateDrop(t, dead_temps) ==
    IF t.kind = "Drop" /\ t.value.lv = "Temp" /\ t.value.index \in dead_temps
    THEN Goto(t.target)
    ELSE t

\* Updater::visit_lvalue
RECURSIVE UpdateLvalue(_, _)
UpdateLvalue(l, replacements) ==
    CASE l.lv = "Temp" -> Temp(replacements[l.index + 1])
      [] l.lv = "Projection" -> Field(UpdateLvalue(l.base, replacements))
      [] OTHER -> l

UpdateOperand(o, replacements) ==
    IF o.op = "Consume" THEN Consume(UpdateLvalue(o.lvalue, replacements)) ELSE o

UpdateRvalue(r, replacements) ==
    CASE r.rv = "Use" -> Use(UpdateOperand(r.operand, replacements))
      [] r.rv = "Ref" -> Ref(UpdateLvalue(r.place, replacements))
      [] r.rv = "BinaryOp" -> BinaryOp(UpdateOperand(r.lhs, replacements),
                                       UpdateOperand(r.rhs, replacements))
      [] r.rv = "InlineAsm" ->
            InlineAsm([k \in 1 .. Len(r.outputs) |-> UpdateLvalue(r.outputs[k], replacements)],
                      [k \in 1 .. Len(r.inputs) |-> UpdateOperand(r.inputs[k], replacements)])

UpdateStatement(s, replacements) ==
    Assign(UpdateLvalue(s.place, replacements), UpdateRvalue(s.rvalue, replacements))

UpdateTerminator(t, replacements) ==
    CASE t.kind = "If" -> [t EXCEPT !.cond = UpdateOperand(t.cond, replacements)]
      [] t.kind = "Call" ->
            [t EXCEPT !.func = UpdateOperand(t.func, replacements),
                      !.args = [k \in 1 .. Len(t.args) |-> UpdateOperand(t.args[k], replacements)],
                      !.destination =
                          IF t.destination = <<>> THEN <<>>
                          ELSE <<<<UpdateLvalue(t.destination[1][1], replacements),
                                   t.destination[1][2]>>>>]
      [] t.kind = "Drop" -> [t EXCEPT !.value = UpdateLvalue(t.value, replacements)]
      [] OTHER -> t

\* The blocks once Updater has rewritten the Drops of dead temporaries.
DropsUpdated(m, dead_temps) ==
    [m EXCEPT !.blocks =
        [b \in 1 .. Len(m.blocks) |->
            [m.blocks[b] EXCEPT !.terminator = UpdateDrop(@, dead_temps)]]]

\* Updater.visit_mir over a body whose Drops are updated already.
UpdateMir(m, replacements) ==
    [m EXCEPT !.blocks =
        [b \in 1 .. Len(m.blocks) |->
            [statements |->
                 [k \in 1 .. Len(m.blocks[b].statements) |->
                     UpdateStatement(m.blocks[b].statements[k], replacements)],
             terminator |-> UpdateTerminator(m.blocks[b].terminator, replacements)]]]

\* ---- the bodies the pass is run on ----

TF_Temps == {Temp(i) : i \in 0 .. (TF_NumTemps - 1)}

TF_Rvalues ==
    {Use(Constant(1)), BinaryOp(Consume(Temp(0)), Consume(Temp(1)))}
    \cup {Use(Consume(t)) : t \in TF_Temps}
    \cup {BinaryOp(Consume(t), Constant(1)) : t \in TF_Temps}
    \cup {Ref(Temp(0))}

TF_StatementForms == {Assign(l, r) : l \in TF_Temps \cup {Var(0)}, r \in TF_Rvalues}

TF_StatementLists ==
    UNION {[1 .. n -> TF_StatementForms] : n \in 0 .. TF_MaxStatements}

TF_Terminators ==
    {Return}
    \cup {If(Consume(t), 0, 0) : t \in TF_Temps}
    \cup {Call(Consume(t), <<>>, <<>>) : t \in TF_Temps}
    \cup {Drop(t, 0, <<>>) : t \in TF_Temps}
    \cup {Drop(Field(t), 0, <<>>) : t \in TF_Temps}

\* temp_decls holds, for every declaration, the index it had in the input.
TF_Init ==
    /\ \E ss \in TF_StatementLists, t \in TF_Terminators :
           mir = [blocks |-> <<[statements |-> ss, terminator |-> t]>>,
                  temp_decls |-> [k \in 1 .. TF_NumTemps |-> k - 1]]
    /\ input = mir
    /\ first_output = <<>>
    /\ mir_opt_level = 1
    /\ run = 1
    /\ pc = "collect"
    /\ changed = FALSE
    /\ uses = <<>>
    /\ dead = {}
    /\ next_block = 0
    /\ call = <<>>
    /\ def_use_analysis = <<>>
    /\ dest_local = 0
    /\ performed = <<>>
    /\ scan_mir = mir
    /\ predecessor_map = <<>>
    /\ cur_bb = 0

\* ---- run_pass, one action per visitor ----

\* collector.visit_mir(mir), and the Promoter built from it (lines 140-148).
TF_Collect ==
    /\ pc = "collect"
    /\ IF OutOfBounds(MirTemps(mir, FALSE), Len(mir.temp_decls))
       THEN pc' = "panic" /\ UNCHANGED <<uses, dead, next_block>>
       ELSE /\ pc' = "promote"
            /\ uses' = CollectUses(mir)
            /\ dead' = {}
            /\ next_block' = 0
    /\ UNCHANGED <<mir, input, mir_opt_level, first_output, run, changed, cp_vars, rd_vars, pm_vars>>

\* p.visit_mir(mir): visit_basic_block_data on the next block.
TF_Promote ==
    /\ pc = "promote" /\ next_block < NumBlocks(mir)
    /\ LET r == PromoteBlock(BlockData(mir, next_block), dead, uses)
       IN  /\ mir' = [mir EXCEPT !.blocks[next_block + 1] = r.data]
           /\ dead' = r.dead
    /\ next_block' = next_block + 1
    /\ UNCHANGED <<input, mir_opt_level, first_output, run, pc, changed, uses, cp_vars, rd_vars, pm_vars>>

\* Lines 151-169: the replacements, the Updater and the truncation.
TF_Update ==
    /\ pc = "promote" /\ next_block = NumBlocks(mir)
    /\ LET c == Compact(mir.temp_decls, [k \in 1 .. Len(mir.temp_decls) |-> k - 1],
                        dead, 0, 0)
           m == DropsUpdated(mir, dead)
       IN  IF OutOfBounds(MirTemps(m, TRUE), Len(c.replacements))
           THEN /\ pc' = "panic"
                /\ mir' = [mir EXCEPT !.temp_decls = c.temp_decls]
           ELSE /\ pc' = "done"
                /\ mir' = [UpdateMir(m, c.replacements) EXCEPT
                              !.temp_decls = SubSeq(c.temp_decls, 1, c.used_temps)]
    /\ UNCHANGED <<input, mir_opt_level, first_output, run, changed, tf_vars, cp_vars, rd_vars, pm_vars>>

\* The pass is run again, on the body the first run returned.
TF_RunAgain ==
    /\ pc = "done" /\ run = 1
    /\ run' = 2
    /\ first_output' = mir
    /\ pc' = "collect"
    /\ uses' = <<>>
    /\ dead' = {}
    /\ next_block' = 0
    /\ UNCHANGED <<mir, input, mir_opt_level, changed, cp_vars, rd_vars, pm_vars>>

TF_Next ==
    \/ TF_Collect
    \/ TF_Promote
    \/ TF_Update
    \/ TF_RunAgain

SpecTF == TF_Init /\ [][TF_Next]_vars

(***************************************************************************)
(*                         PART IV: PredecessorMap                         *)
(*                                                                         *)
(* The map as an object of its own: its methods called in any order on a   *)
(* map made by PredecessorMap::new.                                        *)
(***************************************************************************)

\* Bounds: the number of blocks the map is made for, and the longest
\* predecessor list add_predecessor is called on.
PM_NumBlocks == 2
PM_MaxLen == 3

PM_Blocks == 0 .. (PM_NumBlocks - 1)

PM_Init ==
    /\ predecessor_map = NewPredecessorMap(PM_NumBlocks)
    /\ call = <<>>
    /\ pc = "ready"
    /\ mir = [blocks |-> <<>>]
    /\ input = mir
    /\ first_output = <<>>
    /\ mir_opt_level = 1
    /\ run = 1
    /\ changed = FALSE
    /\ cur_bb = 0
    /\ def_use_analysis = <<>>
    /\ dest_local = 0
    /\ performed = <<>>
    /\ scan_mir = mir
    /\ uses = <<>>
    /\ dead = {}
    /\ next_block = 0

\* add_predecessor(block, predecessor)
PM_AddPredecessor ==
    /\ pc = "ready"
    /\ \E block \in PM_Blocks, predecessor \in PM_Blocks :
           /\ Len(Predecessors(predecessor_map, block)) < PM_MaxLen
           /\ call' = <<"add_predecessor", block, predecessor>>
           /\ predecessor_map' = AddPredecessor(predecessor_map, block, predecessor)
    /\ UNCHANGED <<mir, input, mir_opt_level, first_output, run, pc, changed, cur_bb, cp_vars, tf_vars>>

\* remove_predecessor(block, predecessor): returns, or panics.
PM_RemovePredecessor ==
    /\ pc = "ready"
    /\ \E block \in PM_Blocks, predecessor \in PM_Blocks :
           LET r == RemovePredecessor(predecessor_map, block, predecessor)
           IN  /\ call' = <<"remove_predecessor", block, predecessor>>
               /\ predecessor_map' = r.map
               /\ pc' = IF r.panicked THEN "panic" ELSE "ready"
    /\ UNCHANGED <<mir, input, mir_opt_level, first_output, run, changed, cur_bb, cp_vars, tf_vars>>

\* replace_predecessor(block, old, new): returns, or panics.
PM_ReplacePredecessor ==
    /\ pc = "ready"
    /\ \E block \in PM_Blocks, old \in PM_Blocks, new \in PM_Blocks :
           LET r == ReplacePredecessor(predecessor_map, block, old, new)
           IN  /\ call' = <<"replace_predecessor", block, old, new>>
               /\ predecessor_map' = r.map
               /\ pc' = IF r.panicked THEN "panic" ELSE "ready"
    /\ UNCHANGED <<mir, input, mir_opt_level, first_output, run, changed, cur_bb, cp_vars, tf_vars>>

PM_Next ==
    \/ PM_AddPredecessor
    \/ PM_RemovePredecessor
    \/ PM_ReplacePredecessor

SpecPM == PM_Init /\ [][PM_Next]_vars

(***************************************************************************)
(*                     PART V: the three passes together                   *)
(*                                                                         *)
(* A behaviour runs one of the passes, on a body of that pass's era: the   *)
(* bodies of CopyPropagation have `arg_count`, those of TmpForward have    *)
(* `temp_decls`, those of RemoveDrops have neither.                        *)
(***************************************************************************)

RunsCopyPropagation == "arg_count" \in DOMAIN input
RunsTmpForward == "temp_decls" \in DOMAIN input
RunsRemoveDrops == ~RunsCopyPropagation /\ ~RunsTmpForward

Passes_Init == CP_Init \/ RD_Init \/ TF_Init

Passes_CopyPropagation == RunsCopyPropagation /\ CP_Next
Passes_RemoveDrops == RunsRemoveDrops /\ RD_Next
Passes_TmpForward == RunsTmpForward /\ TF_Next

Passes_Next ==
    \/ Passes_CopyPropagation
    \/ Passes_RemoveDrops
    \/ Passes_TmpForward

SpecPasses == Passes_Init /\ [][Passes_Next]_vars

\* ---- claims about CopyPropagation ----

CP_Returned == pc = "done" /\ run = 1
InputStatements == AllStatements(input)
MirStatements == AllStatements(mir)

\* C1 (soundness of copy elimination): the body the pass returns yields the same
\* observable result as the body it was handed, on every input.
C1_SameObservableResult == CP_Returned => Observe(mir) = Observe(input)

\* The body of the scenario of C3: tmp1 = c; tmp2 = tmp1; x = tmp2; Return.
IsConstantChain(m, tmp1, tmp2, x, c) ==
    /\ Cardinality({tmp1, tmp2, x}) = 3
    /\ LocalKind(m, tmp1) = "Temp" /\ LocalKind(m, tmp2) = "Temp" /\ LocalKind(m, x) # "Arg"
    /\ NumBlocks(m) = 1 /\ BlockData(m, 0).terminator = Return
    /\ Len(BlockData(m, 0).statements) = 3
    /\ BlockData(m, 0).statements[1] = Assign(Local(tmp1), Use(Constant(c)))
    /\ BlockData(m, 0).statements[2] \in {Assign(Local(tmp2), Use(Copy(Local(tmp1)))),
                                         Assign(Local(tmp2), Use(Move(Local(tmp1))))}
    /\ BlockData(m, 0).statements[3] \in {Assign(Local(x), Use(Copy(Local(tmp2)))),
                                         Assign(Local(x), Use(Move(Local(tmp2))))}

\* C3: for tmp1 = c; tmp2 = tmp1; x = tmp2; Return, under every assignment of local
\* indices, the pass returns nop; nop; x = c; Return.
C3_ChainForwarded ==
    \A tmp1 \in Locals, tmp2 \in Locals, x \in Locals, c \in Consts :
        (CP_Returned /\ IsConstantChain(input, tmp1, tmp2, x, c))
            => MirStatements = <<Nop, Nop, Assign(Local(x), Use(Constant(c)))>>

\* C4 (idempotence): the run on the first run's output performs no action and
\* returns that body unchanged.
C4_SecondRunIdle ==
    (pc = "done" /\ run = 2) => (mir = first_output /\ performed = <<>>)

\* An operand or place of the input body that names an argument.
NamesArg(p) == LocalKind(input, p.local) = "Arg"

\* C2 (argument protection): no action is performed with an Argument as destination,
\* no assignment of the input body that defines an Argument is nopped or redirected,
\* and no read of an Argument is replaced by another local or by a constant.
C2_ArgumentProtection ==
    /\ \A k \in 1 .. Len(performed) : LocalKind(mir, performed[k].dest) # "Arg"
    /\ \A i \in 1 .. Len(InputStatements) :
          LET s0 == InputStatements[i]
              s == MirStatements[i]
          IN  s0.kind = "Assign" =>
                /\ NamesArg(s0.place) => (s.kind = "Assign" /\ s.place = s0.place)
                /\ (s0.rvalue.rv = "Use" /\ s0.rvalue.operand.op # "Constant"
                        /\ NamesArg(s0.rvalue.operand.place))
                      => (s.kind = "Nop" \/ s.rvalue.operand = s0.rvalue.operand)
                /\ (s0.rvalue.rv = "Ref" /\ NamesArg(s0.rvalue.place))
                      => (s.kind = "Nop" \/ s.rvalue = s0.rvalue)

\* C2's case: the pass returned after performing an action on a body in which an
\* Argument has one definition, a plain assignment, and is read.
C2_Witness ==
    /\ CP_Returned /\ performed # <<>>
    /\ \E a \in Locals :
          /\ LocalKind(input, a) = "Arg"
          /\ DefCountNotIncludingDrop(Analyze(input)[a]) = 1
          /\ UseCount(Analyze(input)[a]) > 0

\* A statement of the list that reads local l / that defines local l.
IsReadIn(stmts, l) ==
    \E i \in 1 .. Len(stmts) : \E k \in 1 .. Len(StatementOccs(stmts[i])) :
        /\ StatementOccs(stmts[i])[k].local = l
        /\ IsNonmutatingUse(StatementOccs(stmts[i])[k].context)

IsDefinedIn(stmts, l) ==
    \E i \in 1 .. Len(stmts) : \E k \in 1 .. Len(StatementOccs(stmts[i])) :
        /\ StatementOccs(stmts[i])[k].local = l
        /\ IsMutatingUse(StatementOccs(stmts[i])[k].context)

\* C14: the pass never nops the only definition of a local that is still
\* read: every local other than an Argument that the returned body reads and
\* the input body defined is still defined by a statement of the returned body.
C14_ReadLocalsKeepDefinition ==
    CP_Returned =>
        \A l \in Locals :
            (/\ LocalKind(input, l) # "Arg"
             /\ IsReadIn(MirStatements, l)
             /\ IsDefinedIn(InputStatements, l))
                => IsDefinedIn(MirStatements, l)

\* A statement that names local l, in any context.
References(st, l) ==
    \E k \in 1 .. Len(StatementOccs(st)) : StatementOccs(st)[k].local = l

IsMarkerOf(st, l) == st \in {StorageLive(l), StorageDead(l)}

\* What the statement at index i of the body is to be after the local-copy
\* action for (dest, src) whose assignment is at index at.
AfterLocalCopy(st, i, at, dest, src) ==
    IF i = at \/ IsMarkerOf(st, dest) \/ IsMarkerOf(st, src) THEN Nop
    ELSE MutateStatement(st, dest, src)

\* C15: the local-copy action for (dest, src) leaves no statement that names
\* dest: every occurrence of dest names src instead, the assignment
\* dest = src is a nop, and so is every storage marker of dest and of src.
C15_LocalCopyRewritesEveryOccurrence ==
    [][CP_PropagateLocalCopy =>
          LET dest == dest_local
              src == CP_Action.src_local
              at == CP_Action.location.statement_index + 1
              before == MirStatements
              after == BlockData(mir', 0).statements
          IN  /\ \A i \in 1 .. Len(after) : dest # src => ~References(after[i], dest)
              /\ \A i \in 1 .. Len(after) :
                     after[i] = AfterLocalCopy(before[i], i, at, dest, src)]_vars

\* C16: at the start of every outer iteration, before any local is scanned,
\* the analysis the iteration reads its counts from is the analysis of the
\* body as it is then.
C16_AnalysisFreshEachIteration ==
    (pc = "scan" /\ dest_local = 0) => def_use_analysis = Analyze(mir)

\* C17: the outer loop repeats the scan of the locals until a scan rewrites
\* nothing: when run_pass returns, the body is the one its last scan began
\* with.
C17_ReturnsAfterIdleScan ==
    [][CP_Break => mir = scan_mir]_vars

\* The occurrences of a local recorded as uses, mutating or not.
RecordedUses(info) == SelectSeq(info, LAMBDA u : IsUse(u.context))

\* replace_all_defs_and_uses_with(dest, src), as the local-copy action calls
\* it: every recorded occurrence of dest is rewritten in the body.
AllRecordedRewritten(dest, src) ==
    \A k \in 1 .. Len(RecordedUses(def_use_analysis[dest])) :
        LET loc == RecordedUses(def_use_analysis[dest])[k].location
        IN  dest # src => ~References(StatementAt(mir', loc), dest)

\* Every rewritten occurrence is added to the list of the new local.
AllRewrittenAdded(dest, src) ==
    \A k \in 1 .. Len(RecordedUses(def_use_analysis[dest])) :
        Contains(def_use_analysis'[src], RecordedUses(def_use_analysis[dest])[k])

\* The list of the replaced local keeps its entries.
StaleEntriesKept(dest) == def_use_analysis'[dest] = def_use_analysis[dest]

\* C18: replace_all_defs_and_uses_with(local, new) rewrites every recorded
\* occurrence of local in the body, adds each rewritten occurrence to the
\* list of the new local, and leaves the list of local as it was.
C18_ReplaceUpdatesNewLocalOnly ==
    [][CP_PropagateLocalCopy =>
          /\ AllRecordedRewritten(dest_local, CP_Action.src_local)
          /\ AllRewrittenAdded(dest_local, CP_Action.src_local)
          /\ StaleEntriesKept(dest_local)]_vars

\* The definitions of a local the analysis consulted records, drops excluded.
RecordedDefs(l) ==
    SelectSeq(def_use_analysis[l],
              LAMBDA u : u.context \in {"Store", "Call", "ProjectionMut"})

RecordedUseCount(l) ==
    Cardinality({k \in 1 .. Len(def_use_analysis[l]) :
                    IsNonmutatingUse(def_use_analysis[l][k].context)})

\* The recorded definition of a local is the terminator of its block.
DefinedByTerminator(l) ==
    /\ Len(RecordedDefs(l)) = 1
    /\ IsTerminatorLoc(mir, RecordedDefs(l)[1].location)

\* The recorded definition of a local is a statement other than
\* Assign(l, Use(operand)).
DefinedByOtherStatement(l) ==
    /\ Len(RecordedDefs(l)) = 1
    /\ ~IsTerminatorLoc(mir, RecordedDefs(l)[1].location)
    /\ LET st == StatementAt(mir, RecordedDefs(l)[1].location)
       IN  ~(st.kind = "Assign" /\ st.place = Local(l) /\ st.rvalue.rv = "Use")

DefinedByPlainAssignment(l) ==
    /\ Len(RecordedDefs(l)) = 1
    /\ ~IsTerminatorLoc(mir, RecordedDefs(l)[1].location)
    /\ LET st == StatementAt(mir, RecordedDefs(l)[1].location)
       IN  st.kind = "Assign" /\ st.place = Local(l) /\ st.rvalue.rv = "Use"

\* C19: a turn of the scan changes the body only when, in the analysis it
\* consults, the local of the turn has one definition other than a drop and
\* at least one use, and the statement at the recorded definition is
\* Assign(dest, Use(operand)) with dest the bare local; the turn of a local
\* whose recorded definition is a terminator or a statement of another shape
\* leaves the body and the analysis as they are.
C19_OnlyPlainAssignmentsRewritten ==
    [][/\ (mir' # mir \/ CP_PropagateLocalCopy \/ CP_PropagateConstant)
           => /\ pc = "scan" /\ dest_local < NumLocals
              /\ RecordedUseCount(dest_local) > 0
              /\ DefinedByPlainAssignment(dest_local)
       /\ (pc = "scan" /\ dest_local < NumLocals
             /\ (DefinedByTerminator(dest_local) \/ DefinedByOtherStatement(dest_local)))
           => /\ mir' = mir
              /\ def_use_analysis' = def_use_analysis
              /\ dest_local' = dest_local + 1]_vars

\* A body whose block 0 ends in a Call that defines a used local: the pass
\* returned having rewritten another local, with the Call and the uses of its
\* destination as they were.
C19_Witness ==
    /\ CP_Returned
    /\ mir # input
    /\ NumBlocks(input) = 2
    /\ BlockData(mir, 0).terminator = BlockData(input, 0).terminator
    /\ DefCountNotIncludingDrop(Analyze(input)[CallLocal]) = 1
    /\ UseCount(Analyze(input)[CallLocal]) > 0
    /\ Analyze(mir)[CallLocal] = Analyze(input)[CallLocal]

\* The operand of the plain assignment recorded as the definition of a local.
DefinitionOperand(l) == StatementAt(mir, RecordedDefs(l)[1].location).rvalue.operand

\* The local is defined by a plain assignment whose operand reads a place
\* carrying a projection.
DefinedFromProjection(l) ==
    /\ DefinedByPlainAssignment(l)
    /\ DefinitionOperand(l).op \in {"Copy", "Move"}
    /\ DefinitionOperand(l).place.deref

LocalCopyPerformed ==
    /\ Len(performed') = Len(performed) + 1
    /\ performed'[Len(performed')].kind = "PropagateLocalCopy"

\* C20: the local-copy rewrite is performed only when the operand of the
\* definition of dest is Copy or Move of a bare local src that, in the
\* analysis consulted, has exactly one use and exactly one definition other
\* than a drop, or no definition when src is an Argument; the turn of a local
\* defined from a place carrying a projection performs no local-copy rewrite
\* and leaves body and analysis as they are.
C20_SourceIsBareSingleUseLocal ==
    [][/\ LocalCopyPerformed
           => /\ DefinedByPlainAssignment(dest_local)
              /\ DefinitionOperand(dest_local).op \in {"Copy", "Move"}
              /\ LET src == DefinitionOperand(dest_local).place
                 IN  /\ ~src.deref
                     /\ RecordedUseCount(src.local) = 1
                     /\ Len(RecordedDefs(src.local))
                            = (IF LocalKind(mir, src.local) = "Arg" THEN 0 ELSE 1)
       /\ (pc = "scan" /\ dest_local < NumLocals /\ DefinedFromProjection(dest_local))
           => /\ ~LocalCopyPerformed
              /\ mir' = mir
              /\ def_use_analysis' = def_use_analysis]_vars

\* The pass returned after a local-copy rewrite whose source is an Argument
\* without a definition and with one use: the copy is gone and the read of
\* dest now names the Argument.
C20_Witness ==
    /\ CP_Returned
    /\ Len(performed) = 1
    /\ performed[1].kind = "PropagateLocalCopy"
    /\ LET st == StatementAt(input, performed[1].location)
       IN  /\ st.rvalue.operand.op \in {"Copy", "Move"}
           /\ LocalKind(input, st.rvalue.operand.place.local) = "Arg"
           /\ UseCount(Analyze(input)[st.rvalue.operand.place.local]) = 1
           /\ DefCountNotIncludingDrop(Analyze(input)[st.rvalue.operand.place.local]) = 0
           /\ UseCount(Analyze(mir)[st.rvalue.operand.place.local]) > 0
           /\ Analyze(mir)[performed[1].dest] = <<>>
    /\ StatementAt(mir, performed[1].location) = Nop

\* An operand that reads the bare local.
ReadsBare(o, l) == o \in {Copy(Local(l)), Move(Local(l))}

\* The operands at a location that read the bare local: of the statement
\* there, or of the terminator.
OperandsAt(m, loc) ==
    IF IsTerminatorLoc(m, loc)
    THEN LET t == BlockData(m, loc.block).terminator
         IN  IF t.kind = "Call" THEN <<t.func>> \o t.args ELSE <<>>
    ELSE LET st == StatementAt(m, loc)
         IN  IF st.kind = "Assign" /\ st.rvalue.rv = "Use" THEN <<st.rvalue.operand>>
             ELSE <<>>

RecordedLocations(l) == {def_use_analysis[l][k].location : k \in 1 .. Len(def_use_analysis[l])}

\* The operands reading the bare local at its recorded locations, as pairs of
\* location and position.
BareReads(l) ==
    {<<loc, k>> \in RecordedLocations(l) \X (1 .. 2) :
        k <= Len(OperandsAt(mir, loc)) /\ ReadsBare(OperandsAt(mir, loc)[k], l)}

\* The place a slot defines: the left-hand side of an assignment, the
\* destination of a Call.
DefinedPlaces(m) ==
    [b \in 1 .. NumBlocks(m) |->
        [statements |-> [i \in 1 .. Len(m.blocks[b].statements) |->
                            IF m.blocks[b].statements[i].kind = "Assign"
                            THEN <<m.blocks[b].statements[i].place>> ELSE <<>>],
         terminator |-> IF m.blocks[b].terminator.kind = "Call"
                        THEN m.blocks[b].terminator.destination ELSE <<>>]]

\* C21: when the constant action runs for dest with constant c, every operand
\* Copy(dest) or Move(dest) of the bare dest at a recorded location is
\* Constant(c) afterwards and no place in a definition context is rewritten;
\* with `replaced` the number of those operands, the defining assignment is a
\* nop afterwards if and only if replaced equals the use count of dest in the
\* analysis consulted, and is otherwise left as it was.
C21_ConstantAction ==
    [][CP_PropagateConstant =>
          LET dest == dest_local
              location == CP_Action.location
              replaced == Cardinality(BareReads(dest))
          IN  /\ \A r \in BareReads(dest) :
                     OperandsAt(mir', r[1])[r[2]] = Constant(CP_Action.constant)
              /\ \A b \in 1 .. NumBlocks(mir) :
                     /\ DefinedPlaces(mir')[b].terminator = DefinedPlaces(mir)[b].terminator
                     /\ \A i \in 1 .. Len(mir.blocks[b].statements) :
                            Location(b - 1, i - 1) # location
                                => DefinedPlaces(mir')[b].statements[i]
                                       = DefinedPlaces(mir)[b].statements[i]
              /\ (StatementAt(mir', location) = Nop)
                     <=> (replaced = RecordedUseCount(dest))
              /\ replaced # RecordedUseCount(dest)
                     => StatementAt(mir', location) = StatementAt(mir, location)]_vars

\* The pass returned after a constant action that replaced one of the two
\* uses of dest, the other being a borrow: the read holds the constant and
\* the defining assignment is still there.
C21_Witness ==
    /\ CP_Returned
    /\ performed # <<>>
    /\ performed[1].kind = "PropagateConstant"
    /\ UseCount(Analyze(input)[performed[1].dest]) = 2
    /\ UseCount(Analyze(mir)[performed[1].dest]) = 1
    /\ StatementAt(mir, performed[1].location) = StatementAt(input, performed[1].location)
    /\ \E k \in 1 .. Len(MirStatements) :
           /\ InputStatements[k].kind = "Assign" /\ InputStatements[k].rvalue.rv = "Use"
           /\ ReadsBare(InputStatements[k].rvalue.operand, performed[1].dest)
           /\ MirStatements[k] =
                  [InputStatements[k] EXCEPT !.rvalue.operand =
                      StatementAt(input, performed[1].location).rvalue.operand]

\* The slot of a statement after a step: the statement as it was, a nop, or
\* a statement of the same kind and rvalue shape.
SameSlot(s0, s1) ==
    \/ s1 = s0
    \/ s1 = Nop
    \/ /\ s0.kind = "Assign" /\ s1.kind = "Assign"
       /\ s1.rvalue.rv = s0.rvalue.rv

\* Every location the analysis records denotes a slot of the body: a
\* statement of its block or the terminator.
RecordedLocationsValid(m, info) ==
    \A l \in DOMAIN info : \A k \in 1 .. Len(info[l]) :
        /\ info[l][k].location.block < NumBlocks(m)
        /\ info[l][k].location.statement_index
               <= Len(BlockData(m, info[l][k].location.block).statements)

\* C26: no step of the pass adds, removes or reorders blocks or statements:
\* the number of blocks, the number of statements of every block and the
\* successors of every terminator stay as they are, a statement removed is a
\* nop in its slot, and every location recorded by the analysis denotes a
\* slot of the body.
C26_ShapePreserved ==
    [][/\ NumBlocks(mir') = NumBlocks(mir)
       /\ \A b \in 1 .. NumBlocks(mir) :
              /\ Len(mir'.blocks[b].statements) = Len(mir.blocks[b].statements)
              /\ Successors(mir'.blocks[b].terminator) = Successors(mir.blocks[b].terminator)
              /\ mir'.blocks[b].terminator.kind = mir.blocks[b].terminator.kind
              /\ \A i \in 1 .. Len(mir.blocks[b].statements) :
                     SameSlot(mir.blocks[b].statements[i], mir'.blocks[b].statements[i])
       /\ RecordedLocationsValid(mir', def_use_analysis')]_vars

\* The pass returned a two-block body in which it turned a statement of each
\* block into a nop.
C26_Witness ==
    /\ CP_Returned
    /\ NumBlocks(input) = 2
    /\ \A b \in 1 .. 2 :
           \E i \in 1 .. Len(input.blocks[b].statements) :
               input.blocks[b].statements[i] # Nop /\ mir.blocks[b].statements[i] = Nop

\* ---- claims about RemoveDrops ----

RD_Returned == pc = "done"

BlocksOf(m) == 0 .. (NumBlocks(m) - 1)

Terminator(m, b) == BlockData(m, b).terminator

Edge(m, p, b) == Contains(Successors(Terminator(m, p)), b)

PredecessorSet(m, b) == {p \in 0 .. (NumBlocks(m) - 1) : Edge(m, p, b)}

Range(p) == {p[i] : i \in 1 .. Len(p)}

\* The backward paths from block d that visit no block twice.
BackwardPaths(m, d) ==
    {p \in UNION {[1 .. n -> 0 .. (NumBlocks(m) - 1)] : n \in 1 .. NumBlocks(m)} :
        /\ p[1] = d
        /\ \A i \in 1 .. Len(p), j \in 1 .. Len(p) : p[i] = p[j] => i = j
        /\ \A i \in 1 .. (Len(p) - 1) : Edge(m, p[i + 1], p[i])}

StatementRedefines(s, v) ==
    \/ s.place = v
    \/ s.rvalue.rv = "InlineAsm" /\ Contains(s.rvalue.outputs, v)

StatementConsumes(s, v) ==
    \/ s.rvalue.rv = "Use" /\ s.rvalue.operand = Consume(v)
    \/ s.rvalue.rv = "BinaryOp" /\ Consume(v) \in {s.rvalue.lhs, s.rvalue.rhs}
    \/ s.rvalue.rv = "InlineAsm" /\ Contains(s.rvalue.inputs, Consume(v))

StatementBorrows(s, v) == s.rvalue.rv = "Ref" /\ s.rvalue.place = v

\* What a backward walk meets first in a statement: the write happens after
\* the reads, so it is met before them.
StatementEvent(s, v, borrows) ==
    IF StatementRedefines(s, v) THEN "Redefinition"
    ELSE IF StatementConsumes(s, v) \/ (borrows /\ StatementBorrows(s, v)) THEN "Read"
    ELSE "None"

RECURSIVE StatementsEvent(_, _, _, _)
StatementsEvent(stmts, i, v, borrows) ==
    IF i = 0 THEN "None"
    ELSE LET e == StatementEvent(stmts[i], v, borrows)
         IN  IF e # "None" THEN e ELSE StatementsEvent(stmts, i - 1, v, borrows)

TerminatorEvent(t, v, drops) ==
    CASE t.kind = "Call" ->
            IF t.destination # <<>> /\ t.destination[1][1] = v THEN "Redefinition"
            ELSE IF Contains(t.args, Consume(v)) THEN "Read"
            ELSE "None"
      [] t.kind = "Drop" -> IF drops /\ t.value = v THEN "Drop" ELSE "None"
      [] OTHER -> "None"

\* What a backward walk from the Drop of v in block d meets first in block b.
\* `borrows` says whether a borrow of v counts as a read, `drops` whether the
\* Drop of v ending another block counts as an event.
FirstEvent(m, d, b, v, borrows, drops) ==
    LET te == IF b = d THEN "None" ELSE TerminatorEvent(Terminator(m, b), v, drops)
        stmts == BlockData(m, b).statements
    IN  IF te # "None" THEN te ELSE StatementsEvent(stmts, Len(stmts), v, borrows)

\* Some backward path from the Drop in d reaches a redefinition of v with no
\* event before it.
RedefinitionFirst(m, d, v, borrows, drops) ==
    \E p \in BackwardPaths(m, d) :
        /\ \A i \in 1 .. (Len(p) - 1) : FirstEvent(m, d, p[i], v, borrows, drops) = "None"
        /\ FirstEvent(m, d, p[Len(p)], v, borrows, drops) = "Redefinition"

\* Every backward path from the Drop in d meets a read of v, and meets it
\* before any redefinition of v.
EveryPathReadsFirst(m, d, v, borrows) ==
    \A p \in BackwardPaths(m, d) :
        (\A i \in 1 .. (Len(p) - 1) : FirstEvent(m, d, p[i], v, borrows, FALSE) = "None")
            => LET last == p[Len(p)]
                   e == FirstEvent(m, d, last, v, borrows, FALSE)
               IN  \/ e = "Read"
                   \/ /\ e = "None"
                      /\ PredecessorSet(m, last) # {}
                      /\ PredecessorSet(m, last) \cap Range(p) = {}

BlockRedefines(m, b, v) ==
    \/ \E i \in 1 .. Len(BlockData(m, b).statements) :
           StatementRedefines(BlockData(m, b).statements[i], v)
    \/ TerminatorEvent(Terminator(m, b), v, FALSE) = "Redefinition"

IsDropBlock(m, d) == Terminator(m, d).kind = "Drop"

Elided(d) == Terminator(mir, d) = Goto(Terminator(input, d).target)

Kept(d) == Terminator(mir, d) = Terminator(input, d)

\* C5 as stated: a Drop that a redefinition of its value reaches backward
\* with no read of the value in between is never replaced.
C5_Original ==
    [][RD_Replace =>
          ~RedefinitionFirst(mir, cur_bb, Terminator(mir, cur_bb).value, TRUE, FALSE)]_vars

\* C5 (amended): when the pass examines a Drop of v, and in the body as it
\* then stands a redefinition of v reaches the Drop backward with neither a
\* read of v nor another block's Drop of v in between, the Drop is not
\* replaced.
C5_NoElisionPastRedefinition ==
    [][RD_Replace =>
          ~RedefinitionFirst(mir, cur_bb, Terminator(mir, cur_bb).value, TRUE, TRUE)]_vars

C5_Witness ==
    /\ RD_Returned
    /\ \E d \in BlocksOf(mir) :
           /\ IsDropBlock(mir, d)
           /\ d # 0
           /\ BlockData(mir, d).statements = <<>>
           /\ RedefinitionFirst(mir, d, Terminator(mir, d).value, TRUE, TRUE)

\* C6 as stated: a Drop of v all of whose backward paths meet a read of v,
\* borrows included, before any redefinition ends up replaced by Goto.
C6_Original ==
    RD_Returned =>
        \A d \in BlocksOf(mir) :
            (IsDropBlock(input, d)
               /\ EveryPathReadsFirst(input, d, Terminator(input, d).value, TRUE))
                => Elided(d)

\* C6 (amended): a Drop of v all of whose backward paths meet a consuming use
\* of v (an operand Consume(v) of an assignment, an inline-asm input or a Call
\* argument) before any redefinition of v ends up replaced by Goto(target).
C6_ElisionAfterConsumingUse ==
    RD_Returned =>
        \A d \in BlocksOf(mir) :
            (IsDropBlock(input, d)
               /\ EveryPathReadsFirst(input, d, Terminator(input, d).value, FALSE))
                => Elided(d)

C6_Witness ==
    /\ RD_Returned
    /\ \E d \in BlocksOf(mir) :
           /\ IsDropBlock(input, d)
           /\ BlockData(input, d).statements = <<>>
           /\ EveryPathReadsFirst(input, d, Terminator(input, d).value, FALSE)
           /\ Elided(d)

\* C7: a Drop of v such that no block backward-reachable from its block, that
\* block included, redefines v ends up replaced by Goto(target); so does the
\* Drop of a statement-less entry block without predecessors.
C7_ElisionWithoutRedefinition ==
    RD_Returned =>
        \A d \in BlocksOf(mir) :
            (IsDropBlock(input, d)
               /\ \A p \in BackwardPaths(input, d) : \A b \in Range(p) :
                      ~BlockRedefines(input, b, Terminator(input, d).value))
                => Elided(d)

C7_Witness ==
    /\ RD_Returned
    /\ input.blocks[1] = [statements |-> <<>>, terminator |-> Drop(RD_Value, 1, <<>>)]
    /\ PredecessorSet(input, 0) = {}
    /\ Terminator(mir, 0) = Goto(1)

ReadsBetween(m, d, v) ==
    LET stmts == BlockData(m, d).statements
    IN  /\ Len(stmts) = 2
        /\ stmts[1].place = v
        /\ ~StatementRedefines(stmts[2], v)

\* C8 as stated: in a block `v = rvalue; statement reading v; Drop(v, t)` the
\* Drop is still there when the pass returns.
C8_Original ==
    RD_Returned =>
        \A d \in BlocksOf(mir) :
            LET v == Terminator(input, d).value
                stmts == BlockData(input, d).statements
            IN  (IsDropBlock(input, d) /\ ReadsBetween(input, d, v)
                   /\ (StatementConsumes(stmts[2], v) \/ StatementBorrows(stmts[2], v)))
                    => Kept(d)

\* C8 (amended): in a block `v = rvalue; s; Drop(v, t)` the Drop is still
\* there when the pass returns if s borrows v, and is replaced by Goto(t) if
\* s consumes v as an operand.
C8_BorrowBlocksConsumeElides ==
    RD_Returned =>
        \A d \in BlocksOf(mir) :
            LET v == Terminator(input, d).value
                stmts == BlockData(input, d).statements
            IN  (IsDropBlock(input, d) /\ ReadsBetween(input, d, v))
                    => /\ StatementBorrows(stmts[2], v) => Kept(d)
                       /\ StatementConsumes(stmts[2], v) => Elided(d)

C8_Witness ==
    /\ RD_Returned
    /\ BlockData(input, 0).statements =
           <<Assign(RD_Value, Use(Constant(1))), Assign(RD_Sink, Ref(RD_Value))>>
    /\ BlockData(input, 1).statements =
           <<Assign(RD_Value, Use(Constant(1))), Assign(RD_Sink, Use(Consume(RD_Value)))>>
    /\ IsDropBlock(input, 0) /\ Terminator(input, 0).value = RD_Value /\ Kept(0)
    /\ IsDropBlock(input, 1) /\ Terminator(input, 1).value = RD_Value /\ Elided(1)

\* The backward paths from block d along the predecessor map of the current
\* outer iteration that visit no block twice.
SearchPaths(d) ==
    {p \in UNION {[1 .. n -> BlocksOf(mir)] : n \in 1 .. NumBlocks(mir)} :
        /\ p[1] = d
        /\ \A i \in 1 .. Len(p), j \in 1 .. Len(p) : p[i] = p[j] => i = j
        /\ \A i \in 1 .. (Len(p) - 1) :
               Contains(Predecessors(predecessor_map, p[i]), p[i + 1])}

\* The paths the search of the Drop in d follows: no block before the last
\* one holds an event, so each of them hands the search to its predecessors.
FollowedPaths(d, v) ==
    {p \in SearchPaths(d) :
        \A i \in 1 .. (Len(p) - 1) : FirstEvent(mir, d, p[i], v, FALSE, TRUE) = "None"}

InspectedBlocks(d, v) == {p[Len(p)] : p \in FollowedPaths(d, v)}

\* The search of the Drop in d inspects a block in which it meets a
\* redefinition of v first.
AbortReached(d, v) ==
    \E b \in InspectedBlocks(d, v) : FirstEvent(mir, d, b, v, FALSE, TRUE) = "Redefinition"

\* The turn of `for cur_bb` on a Drop.
DropTurn == pc = "scan" /\ cur_bb < NumBlocks(mir) /\ IsDropBlock(mir, cur_bb)

DroppedValue == Terminator(mir, cur_bb).value

DropLeft == mir' = mir /\ changed' = changed /\ cur_bb' = cur_bb + 1

DropElided ==
    /\ mir' = [mir EXCEPT !.blocks[cur_bb + 1].terminator = Goto(Terminator(mir, cur_bb).target)]
    /\ cur_bb' = cur_bb + 1

\* C22: when the search of a Drop inspects a block, its own included, in
\* which going backward it meets first an assignment to the dropped value,
\* an inline-asm with the value as output or, as terminator of another
\* block, a Call with the value as destination, the Drop is left unchanged;
\* the left-hand side counts before the right-hand side of one statement.
C22_RedefinitionAbortsElision ==
    [][(DropTurn /\ AbortReached(cur_bb, DroppedValue)) => DropLeft]_vars

\* The pass returned: the Drops of `v = 1; Drop(v)` and of
\* `v = consume v; Drop(v)` are both still there.
C22_Witness ==
    /\ RD_Returned
    /\ BlockData(input, 0).statements = <<Assign(RD_Value, Use(Constant(1)))>>
    /\ BlockData(input, 1).statements = <<Assign(RD_Value, Use(Consume(RD_Value)))>>
    /\ IsDropBlock(input, 0) /\ Terminator(input, 0).value = RD_Value /\ Kept(0)
    /\ IsDropBlock(input, 1) /\ Terminator(input, 1).value = RD_Value /\ Kept(1)

\* An assignment whose right-hand side takes the address of v or reads its
\* length.
TakesAddressOrLength(s, v) == s.rvalue.rv \in {"Ref", "Len"} /\ s.rvalue.place = v

\* Going backward through the statements from statement i, the first one
\* that mentions v takes its address or reads its length.
RECURSIVE AddressOrLengthFirst(_, _, _)
AddressOrLengthFirst(stmts, i, v) ==
    IF i = 0 THEN FALSE
    ELSE IF TakesAddressOrLength(stmts[i], v) /\ ~StatementRedefines(stmts[i], v) THEN TRUE
    ELSE IF StatementEvent(stmts[i], v, FALSE) # "None" THEN FALSE
    ELSE AddressOrLengthFirst(stmts, i - 1, v)

\* The search of the Drop in d comes to such a statement in a block it inspects.
AddressOrLengthReached(d, v) ==
    \E b \in InspectedBlocks(d, v) :
        /\ (b = d \/ TerminatorEvent(Terminator(mir, b), v, TRUE) = "None")
        /\ AddressOrLengthFirst(BlockData(mir, b).statements,
                                Len(BlockData(mir, b).statements), v)

\* C23 as stated: an assignment that takes the address of the dropped value
\* or reads its length ends the search of its block like a consuming operand;
\* met first in the Drop's own block, it leaves nothing to inspect and the
\* Drop is replaced.
C23_Original ==
    [][(DropTurn /\ AddressOrLengthFirst(BlockData(mir, cur_bb).statements,
                                         Len(BlockData(mir, cur_bb).statements),
                                         DroppedValue))
          => DropElided]_vars

\* C23 (amended): an assignment whose right-hand side takes the address of
\* the dropped value or reads its length does not end the search of its
\* block: the reverse scan goes on to the earlier statements and then to the
\* block's predecessors, as for a statement that does not mention the value;
\* the Drop is left unchanged if the search so continued meets a
\* redefinition first, and replaced by Goto(target) otherwise.
C23_AddressAndLengthScannedThrough ==
    [][(DropTurn /\ AddressOrLengthReached(cur_bb, DroppedValue))
          => IF AbortReached(cur_bb, DroppedValue) THEN DropLeft ELSE DropElided]_vars

\* The pass returned: the Drop of `v = 1; sink = len(v); Drop(v)` is still
\* there, the Drop of `sink = consume v; sink = &v; Drop(v)` is replaced.
C23_Witness ==
    /\ RD_Returned
    /\ BlockData(input, 0).statements =
           <<Assign(RD_Value, Use(Constant(1))), Assign(RD_Sink, RvalueLen(RD_Value))>>
    /\ BlockData(input, 1).statements =
           <<Assign(RD_Sink, Use(Consume(RD_Value))), Assign(RD_Sink, Ref(RD_Value))>>
    /\ IsDropBlock(input, 0) /\ Terminator(input, 0).value = RD_Value /\ Kept(0)
    /\ IsDropBlock(input, 1) /\ Terminator(input, 1).value = RD_Value /\ Elided(1)

\* The blocks other than d that the search of the Drop in d inspects and
\* that end in a Drop of the same value.
PriorDropBlocks(d, v) ==
    {b \in InspectedBlocks(d, v) \ {d} : IsDropBlock(mir, b) /\ Terminator(mir, b).value = v}

\* C24 as stated: the statements of an inspected block that ends in another
\* Drop of the same value are scanned, so an assignment to the value met
\* first among them leaves the Drop unchanged.
C24_Original ==
    [][(DropTurn /\ \E b \in PriorDropBlocks(cur_bb, DroppedValue) :
                       StatementsEvent(BlockData(mir, b).statements,
                                       Len(BlockData(mir, b).statements),
                                       DroppedValue, FALSE) = "Redefinition")
          => DropLeft]_vars

\* C24 (amended): when the search of a Drop pops a block other than the
\* Drop's own whose terminator is a Drop of the same value, neither the
\* statements of that block are scanned nor its predecessors added: the
\* search goes on with the rest of the worklist, and the Drop is left
\* unchanged only if a redefinition is met first in another inspected block.
C24_PriorDropEndsSearchOfBlock ==
    [][(DropTurn /\ PriorDropBlocks(cur_bb, DroppedValue) # {})
          => IF AbortReached(cur_bb, DroppedValue) THEN DropLeft ELSE DropElided]_vars

\* The pass returned: block 0 is `Drop(v, 1)`, reached from block 1
\* `v = 1; Drop(v, 0)` only, and the Drop of block 0 is replaced.
C24_Witness ==
    /\ RD_Returned
    /\ NumBlocks(input) = 2
    /\ input.blocks[1] = [statements |-> <<>>, terminator |-> Drop(RD_Value, 1, <<>>)]
    /\ input.blocks[2] = [statements |-> <<Assign(RD_Value, Use(Constant(1)))>>,
                          terminator |-> Drop(RD_Value, 0, <<>>)]
    /\ Elided(0)
    /\ Kept(1)

\* The blocks the search of the Drop in d inspects that end in a Call with
\* the value among its arguments and another destination.
ConsumingCallBlocks(d, v) ==
    {b \in InspectedBlocks(d, v) :
        /\ Terminator(mir, b).kind = "Call"
        /\ Contains(Terminator(mir, b).args, Consume(v))
        /\ (Terminator(mir, b).destination = <<>>
               \/ Terminator(mir, b).destination[1][1] # v)}

\* C25: a Call ending an inspected block, with the dropped value among its
\* arguments and another destination, ends the search of that block only:
\* its statements are not scanned and its predecessors not added, the
\* elision is not aborted by it, and the rest of the worklist is still
\* processed, so that the Drop is left unchanged exactly when a redefinition
\* is met first in another inspected block.
C25_ConsumingCallEndsSearchOfBlock ==
    [][(DropTurn /\ ConsumingCallBlocks(cur_bb, DroppedValue) # {})
          => IF AbortReached(cur_bb, DroppedValue) THEN DropLeft ELSE DropElided]_vars

\* The pass returned: the Drop of block 0 is reached from block 1, which
\* assigns the value and goes to block 0, and from block 2, which assigns the
\* value and ends in a Call consuming it: the Call does not abort, the
\* assignment of block 1 does, and the Drop is still there.
C25_Witness ==
    /\ RD_Returned
    /\ NumBlocks(input) = 3
    /\ input.blocks[2] = [statements |-> <<Assign(RD_Value, Use(Constant(1)))>>,
                          terminator |-> Goto(0)]
    /\ input.blocks[3] = [statements |-> <<Assign(RD_Value, Use(Constant(1)))>>,
                          terminator |-> Call(Constant(0), <<Consume(RD_Value)>>,
                                              <<<<RD_Sink, 0>>>>)]
    /\ Kept(0)

\* C28: a step of the pass changes nothing but the terminator of one block
\* that is a Drop: the number of blocks, every statement and every other
\* terminator stay as they are, and the Drop becomes Goto to its own target,
\* whatever its unwind edge.
C28_OnlyDropsBecomeGoto ==
    [][/\ NumBlocks(mir') = NumBlocks(mir)
       /\ \A b \in BlocksOf(mir) :
              /\ BlockData(mir', b).statements = BlockData(mir, b).statements
              /\ \/ Terminator(mir', b) = Terminator(mir, b)
                 \/ /\ Terminator(mir, b).kind = "Drop"
                    /\ Terminator(mir', b) = Goto(Terminator(mir, b).target)]_vars

\* The pass returned with a Drop that had an unwind edge to another block
\* than its target replaced by Goto(target).
C28_Witness ==
    /\ RD_Returned
    /\ mir # input
    /\ \E d \in BlocksOf(mir) :
           /\ IsDropBlock(input, d)
           /\ Terminator(input, d).unwind # <<>>
           /\ Terminator(input, d).unwind[1] # Terminator(input, d).target
           /\ Terminator(mir, d) = Goto(Terminator(input, d).target)
    /\ \A b \in BlocksOf(mir) :
           /\ BlockData(mir, b).statements = BlockData(input, b).statements
           /\ ~IsDropBlock(input, b) => Terminator(mir, b) = Terminator(input, b)

\* ---- claims about the predecessor map ----

\* How many times x occurs in the sequence v.
Occurrences(v, x) == Cardinality({k \in 1 .. Len(v) : v[k] = x})

\* C11: the index build_predecessor_map returns for a body lists block a
\* among the predecessors of block b exactly as many times as b appears among
\* the successors of a's terminator, lists nothing else, and so has an empty
\* list for a block without incoming edges.  The index describes the body as
\* long as no terminator was replaced since it was built.
C11_MapCountsEdges ==
    ~changed =>
        \A b \in BlocksOf(mir) :
            /\ Range(Predecessors(predecessor_map, b)) \subseteq BlocksOf(mir)
            /\ \A a \in BlocksOf(mir) :
                   Occurrences(Predecessors(predecessor_map, b), a)
                       = Occurrences(Successors(Terminator(mir, a)), b)
            /\ PredecessorSet(mir, b) = {} => Predecessors(predecessor_map, b) = <<>>

\* The index rebuilt after an elision lists a block twice for one block and
\* is empty for another.
C11_Witness ==
    /\ ~changed /\ mir # input
    /\ \E a \in BlocksOf(mir), b \in BlocksOf(mir) :
           Occurrences(Predecessors(predecessor_map, b), a) = 2
    /\ \E b \in BlocksOf(mir) :
           PredecessorSet(mir, b) = {} /\ Predecessors(predecessor_map, b) = <<>>

\* C12: remove_predecessor(block, p) with p not among predecessors(block)
\* panics instead of returning, and replace_predecessor(block, old, new) with
\* old not among predecessors(block) panics the same way; in both cases the
\* map is left as it was, so new is not added.
C12_UnrecordedPredecessorPanics ==
    [][(/\ call'[1] \in {"remove_predecessor", "replace_predecessor"}
        /\ ~Contains(Predecessors(predecessor_map, call'[2]), call'[3]))
           => (pc' = "panic" /\ predecessor_map' = predecessor_map)]_vars

\* replace_predecessor has panicked on a non-empty list that holds neither
\* `old` nor `new`.
C12_Witness ==
    /\ pc = "panic"
    /\ call[1] = "replace_predecessor"
    /\ Predecessors(predecessor_map, call[2]) # <<>>
    /\ ~Contains(Predecessors(predecessor_map, call[2]), call[3])
    /\ ~Contains(Predecessors(predecessor_map, call[2]), call[4])

\* ---- claims about all three passes ----

\* The operands of the body that read a place.
PlaceOperands(m) ==
    Len(SelectSeq(Flatten([b \in 1 .. NumBlocks(m) |-> m.blocks[b].statements]),
                  LAMBDA st : /\ st.kind = "Assign"
                              /\ st.rvalue.rv = "Use"
                              /\ st.rvalue.operand.op # "Constant"))

\* The Drop terminators of the body.
DropTerminators(m) ==
    Cardinality({b \in 0 .. (NumBlocks(m) - 1) : Terminator(m, b).kind = "Drop"})

\* What is left of the current run of a pass: 0 once run_pass has returned or
\* panicked.  For the two fixed-point loops it weighs what an outer
\* iteration that reports a change uses up (an operand that reads a place,
\* a Drop) above the `changed` flag, and the flag above the turns left in the
\* inner `for`.
CP_Progress ==
    IF pc = "done" THEN 0
    ELSE 1 + (2 * PlaceOperands(mir) + (IF changed THEN 1 ELSE 0)) * (NumLocals + 1)
           + (NumLocals - dest_local)

RD_Progress ==
    IF pc = "done" THEN 0
    ELSE 1 + (2 * DropTerminators(mir) + (IF changed THEN 1 ELSE 0)) * (NumBlocks(mir) + 1)
           + (NumBlocks(mir) - cur_bb)

TF_Progress ==
    CASE pc = "collect" -> 2 + NumBlocks(mir)
      [] pc = "promote" -> 1 + (NumBlocks(mir) - next_block)
      [] OTHER -> 0

\* The runs still to come, then what is left of the current one.
Rank ==
    <<2 - run,
      IF RunsCopyPropagation THEN CP_Progress
      ELSE IF RunsTmpForward THEN TF_Progress
      ELSE RD_Progress>>

\* The lexicographic order on pairs of naturals.
Below(r, q) ==
    /\ r[1] \in Nat /\ r[2] \in Nat
    /\ r[1] < q[1] \/ (r[1] = q[1] /\ r[2] < q[2])

\* The search from the Drop of cur_bb empties its worklist within one turn
\* for cur_bb and one for each entry of the predecessor list of each block.
WorkLoopExits ==
    (RunsRemoveDrops /\ pc = "scan" /\ cur_bb < NumBlocks(mir)
        /\ Terminator(mir, cur_bb).kind = "Drop")
    => LET most == 1 + Len(Flatten(predecessor_map))
       IN  WorkIterations(mir, predecessor_map, cur_bb, Terminator(mir, cur_bb).value,
                          <<cur_bb>>, <<>>, most + 1) <= most

\* The `loop` over the statements of the block Promoter comes to next breaks
\* within one turn for each statement and one more.
PromoteLoopExits ==
    (RunsTmpForward /\ pc = "promote" /\ next_block < NumBlocks(mir))
    => LET most == 1 + Len(BlockData(mir, next_block).statements)
       IN  PromoteBlockIterations(BlockData(mir, next_block), dead, uses, most + 1) <= most

\* C13: each pass terminates on every body.  Every step of run_pass (a turn
\* of an inner `for`, the start of another outer iteration, the return)
\* lowers a rank that is a pair of naturals, so no run goes on for ever; and
\* wherever a step is taken, the worklist search of the Drop at hand and the
\* per-block loop of the Promoter exit within a number of turns fixed by the
\* size of the body, cyclic control flow included.
C13_PassesTerminate ==
    [][Below(Rank', Rank) /\ WorkLoopExits /\ PromoteLoopExits]_vars

\* RemoveDrops has returned after eliding a Drop in a body whose two blocks
\* lie on a cycle, after more than one outer iteration.
C13_Witness ==
    /\ RunsRemoveDrops /\ pc = "done"
    /\ Edge(input, 0, 1) /\ Edge(input, 1, 0)
    /\ DropTerminators(mir) < DropTerminators(input)
    /\ predecessor_map # BuildPredecessorMap(input)

\* ---- claims about the outer loop of CopyPropagation ----

NonNopStatements(m) == Len(SelectSeq(AllStatements(m), LAMBDA st : st # Nop))

TF_Returned == pc = "done" /\ run = 1

ReferencesValid(m) ==
    \A k \in 1 .. Len(MirTemps(m, TRUE)) : MirTemps(m, TRUE)[k] < Len(m.temp_decls)

SurvivorsInOrder(m) ==
    /\ \A j \in 1 .. Len(m.temp_decls), k \in 1 .. Len(m.temp_decls) :
           j < k => m.temp_decls[j] < m.temp_decls[k]
    /\ Range(m.temp_decls) = Range(input.temp_decls) \ dead

\* C9: when the pass returns, every Temp index referenced in the body, the
\* values of Drops included, is below the length of temp_decls, and
\* temp_decls holds the declarations of the surviving temporaries in their
\* original relative order.
C9_DenseAndValid ==
    TF_Returned => (ReferencesValid(mir) /\ SurvivorsInOrder(mir))

\* C10: a run of the pass on the body a first run returned substitutes
\* nothing and hands back that body, temp_decls included.
C10_SecondRunIdle ==
    (run = 2 /\ pc \in {"done", "panic"})
        => (pc = "done" /\ dead = {} /\ mir = first_output)

\* The Promoter has visited every block of the first run and the Updater has
\* not started: mir holds the promoted statements under the input's indices.
Promoted == run = 1 /\ pc = "promote" /\ next_block = NumBlocks(mir)

\* The assignments of m whose lvalue is the temporary idx.
DefiningAssignments(m, idx) ==
    LET Defines(s) == s.place = Temp(idx) IN SelectSeq(AllStatements(m), Defines)

\* The occurrences TempCollector counts for idx in m.
OccurrenceCount(m, idx) ==
    LET IsIdx(x) == x = idx IN Count(MirTemps(m, FALSE), IsIdx)

\* C29: a temporary is substituted and marked dead only if TempCollector
\* counted exactly two occurrences of it (definitions and reads in statements
\* and terminators, the value of a Drop left out) and an Assign statement
\* defines it; a temporary with any other count keeps all its occurrences and
\* its defining statements.
C29_OnlyCountTwoForwarded ==
    Promoted =>
        \A idx \in 0 .. (Len(input.temp_decls) - 1) :
            /\ idx \in dead =>
                   /\ OccurrenceCount(input, idx) = 2
                   /\ DefiningAssignments(input, idx) # <<>>
            /\ OccurrenceCount(input, idx) # 2 =>
                   /\ idx \notin dead
                   /\ OccurrenceCount(mir, idx) = OccurrenceCount(input, idx)
                   /\ Len(DefiningAssignments(mir, idx))
                          = Len(DefiningAssignments(input, idx))

\* One temporary was forwarded while another, assigned in the same block
\* with a count other than 2, was left alone.
C29_Witness ==
    /\ Promoted
    /\ dead # {}
    /\ \E idx \in 0 .. (Len(input.temp_decls) - 1) :
           /\ OccurrenceCount(input, idx) \notin {0, 2}
           /\ DefiningAssignments(input, idx) # <<>>
           /\ DefiningAssignments(mir, idx) # <<>>

\* The statements of the input that do not assign a forwarded temporary.
KeptStatements ==
    LET NotForwarded(s) == ~(s.place.lv = "Temp" /\ s.place.index \in dead)
    IN  SelectSeq(AllStatements(input), NotForwarded)

ReadsForwarded(r) == \E k \in 1 .. Len(RvalueTemps(r)) : RvalueTemps(r)[k] \in dead

\* C30: once the Promoter has processed a block, its statements are those of
\* the input without the defining assignments of the forwarded temporaries,
\* in their original order; a statement that is kept has its lvalue, and its
\* rvalue too unless that read a forwarded temporary, and no forwarded
\* temporary is read any more.
C30_StatementsMinusForwarded ==
    Promoted =>
        /\ Len(AllStatements(mir)) = Len(KeptStatements)
        /\ \A k \in 1 .. Len(KeptStatements) :
               /\ AllStatements(mir)[k].place = KeptStatements[k].place
               /\ \/ AllStatements(mir)[k].rvalue = KeptStatements[k].rvalue
                  \/ ReadsForwarded(KeptStatements[k].rvalue)
        /\ \A idx \in dead : OccurrenceCount(mir, idx) = 0

\* Two temporaries were forwarded, and a statement that read neither follows
\* in the block.
C30_Witness ==
    /\ Promoted
    /\ Cardinality(dead) = 2
    /\ AllStatements(mir) # <<>>
    /\ \E k \in 1 .. Len(KeptStatements) :
           /\ ~ReadsForwarded(KeptStatements[k].rvalue)
           /\ AllStatements(mir)[k] = KeptStatements[k]

\* The index a surviving temporary gets: the number of survivors below it.
Renumbered(idx) == Cardinality({j \in 0 .. (idx - 1) : j \notin dead})

\* The Updater has run over the body and the pass returns.
UpdaterStep == pc = "promote" /\ next_block = NumBlocks(mir) /\ pc' = "done"

\* C31: when the pass returns, every Drop whose value was a temporary marked
\* dead is Goto to the target of that Drop, and a Drop of a surviving
\* temporary is a Drop of that temporary under its new index, with the same
\* target and unwind block.
C31_DeadDropsBecomeGoto ==
    [][UpdaterStep =>
          \A b \in BlocksOf(mir) :
              (Terminator(mir, b).kind = "Drop" /\ Terminator(mir, b).value.lv = "Temp")
                  => Terminator(mir', b) =
                         IF Terminator(mir, b).value.index \in dead
                         THEN Goto(Terminator(mir, b).target)
                         ELSE Drop(Temp(Renumbered(Terminator(mir, b).value.index)),
                                   Terminator(mir, b).target,
                                   Terminator(mir, b).unwind)]_vars

\* The pass returned a body in which the Drop of a forwarded temporary is a
\* Goto to the target of that Drop.
C31_Witness ==
    /\ TF_Returned
    /\ \E b \in BlocksOf(input) :
           /\ Terminator(input, b).kind = "Drop"
           /\ Terminator(input, b).value.lv = "Temp"
           /\ Terminator(input, b).value.index \in dead
           /\ Terminator(mir, b) = Goto(Terminator(input, b).target)

\* ---- claims about the gate of CopyPropagation ----

\* C32: CopyPropagation runs only when the MIR optimization level is greater
\* than 1; at every other level run_pass performs no action and the body is
\* the one it was handed.
C32_RunsOnlyAboveLevelOne ==
    mir_opt_level <= 1 => (mir = input /\ performed = <<>>)

\* ---- claims about the methods of the predecessor map ----

\* The occurrences in `after` are those in `before`, with one less of `less`
\* and one more of `more` in the list of `block` (-1 stands for no block).
OccurrencesShifted(before, after, block, less, more) ==
    \A b \in PM_Blocks, x \in PM_Blocks :
        Occurrences(Predecessors(after, b), x) =
            Occurrences(Predecessors(before, b), x)
                - (IF b = block /\ x = less THEN 1 ELSE 0)
                + (IF b = block /\ x = more THEN 1 ELSE 0)

OtherListsKept(before, after, block) ==
    \A b \in PM_Blocks \ {block} : Predecessors(after, b) = Predecessors(before, b)

\* C33: remove_predecessor(block, p) with p recorded returns with exactly one
\* occurrence of p removed from predecessors(block): further duplicates of
\* p, the multiset of the other entries and every other block's list are
\* kept. replace_predecessor(block, old, new) with old recorded is that
\* removal followed by one more occurrence of new. Adding an edge and then
\* removing it gives back the multiset.
C33_RemoveTakesOneOccurrence ==
    [][/\ (/\ call'[1] = "remove_predecessor"
           /\ Contains(Predecessors(predecessor_map, call'[2]), call'[3]))
              => /\ pc' = "ready"
                 /\ OccurrencesShifted(predecessor_map, predecessor_map',
                                       call'[2], call'[3], -1)
                 /\ OtherListsKept(predecessor_map, predecessor_map', call'[2])
       /\ (/\ call'[1] = "replace_predecessor"
           /\ Contains(Predecessors(predecessor_map, call'[2]), call'[3]))
              => /\ pc' = "ready"
                 /\ OccurrencesShifted(predecessor_map, predecessor_map',
                                       call'[2], call'[3], call'[4])
                 /\ OtherListsKept(predecessor_map, predecessor_map', call'[2])
       /\ \A block \in PM_Blocks, p \in PM_Blocks :
              LET r == RemovePredecessor(AddPredecessor(predecessor_map, block, p),
                                         block, p)
              IN  /\ ~r.panicked
                  /\ OccurrencesShifted(predecessor_map, r.map, block, -1, -1)
                  /\ OtherListsKept(predecessor_map, r.map, block)]_vars

\* remove_predecessor has returned from a list that held the predecessor
\* twice and another entry before it: one duplicate and the other entry are
\* still there.
C33_Witness ==
    /\ pc = "ready"
    /\ call # <<>>
    /\ call[1] = "remove_predecessor"
    /\ Len(Predecessors(predecessor_map, call[2])) = 2
    /\ Occurrences(Predecessors(predecessor_map, call[2]), call[3]) = 1
    /\ Predecessors(predecessor_map, 1 - call[2]) # <<>>

\* ---- claims about the predecessor map during RemoveDrops ----

\* The number of edges from block a to block b in the body as it is now.
CurrentEdges(a, b) == Occurrences(Successors(Terminator(mir, a)), b)

RecordedEdges(a, b) == Occurrences(Predecessors(predecessor_map, b), a)

\* C34: throughout a run of RemoveDrops the map the searches consult lists
\* block a among the predecessors of block b at least as many times as b is
\* a successor of the terminator a has now, although the map is built once
\* per outer iteration and terminators are replaced within the iteration.
C34_MapCoversCurrentEdges ==
    \A a \in BlocksOf(mir), b \in BlocksOf(mir) : RecordedEdges(a, b) >= CurrentEdges(a, b)

\* A Drop is about to be searched for with a map that records an edge the
\* body lost earlier in the same outer iteration.
C34_Witness ==
    /\ pc = "scan" /\ changed
    /\ cur_bb < NumBlocks(mir)
    /\ Terminator(mir, cur_bb).kind = "Drop"
    /\ predecessor_map # BuildPredecessorMap(mir)
    /\ \E a \in BlocksOf(mir), b \in BlocksOf(mir) : RecordedEdges(a, b) > CurrentEdges(a, b)

====
